---- MODULE Spec2Model ----
(***************************************************************************)
(* Chrome Prompt API Test Platform: the persistent store (lib/database.ts), *)
(* the conversation orchestrator (components/ChatInterface.tsx), the        *)
(* session manager (SessionManager, in components/ErrorBoundary.tsx) and    *)
(* the application state projection (contexts/AppContext.tsx) as one state  *)
(* machine.                                                                 *)
(*                                                                          *)
(* Every asynchronous handler is cut at the awaits that yield to the event  *)
(* loop (IndexedDB requests, model calls, stream reads); the synchronous    *)
(* code between two such awaits is one action.  Requests that are pending   *)
(* at the same time may complete in any order.  Text is a sequence of       *)
(* one-character strings, so concatenation and length are those of Seq.     *)
(* A session is represented by its id and its inputUsage; the quota of a    *)
(* handle never changes and is left out.                                    *)
(*                                                                          *)
(* Spec is the application.  SpecData is the database module called one     *)
(* operation at a time, with the dates of its records and the exported      *)
(* file; SpecRetry is one invocation of chromeAPI.promptWithRetry; SpecApi   *)
(* is the other methods of ChromeAPIService called one at a time;           *)
(* SpecReader is one consumer of a streamed response; SpecConn is the       *)
(* callers of initDB; SpecLive is the application with every await          *)
(* settling; SpecReducer is appReducer under dispatch; SpecForm is one      *)
(* session creation form.                                                   *)
(***************************************************************************)
EXTENDS Integers, Sequences, FiniteSets, TLC

\* ---------------------------------------------------------------- bounds
\* invocations of handleSendMessage in one run
MaxTurns == 2
\* chunks a stream delivers before it is done
MaxChunks == 2
\* checkpoints written while streaming (Math.random() < 0.2) in one run
MaxCheckpoints == 1
\* rejections of the store or of the model in one run
MaxFailures == 1
\* sessions selected, sessions deleted in one run
MaxSelects == 1
MaxDeletes == 1
\* sessions selected in a run in which the user switches sessions
MaxSwitches == 2

\* A run is bounded by what its environment does in it.  The runs explored
\* are those of four kinds: conversations with checkpoints, conversations
\* with a rejection, one conversation turn around a session deletion, and
\* one conversation turn around switches of the active session.
Scenarios ==
    { [turns |-> MaxTurns, checkpoints |-> MaxCheckpoints, failures |-> 0,
       selects |-> MaxSelects, deletes |-> 0, rejected |-> {}],
      [turns |-> MaxTurns, checkpoints |-> 0, failures |-> MaxFailures,
       selects |-> MaxSelects, deletes |-> 0, rejected |-> {}],
      [turns |-> MaxTurns - 1, checkpoints |-> MaxCheckpoints,
       failures |-> MaxFailures, selects |-> MaxSelects,
       deletes |-> MaxDeletes, rejected |-> {}],
      [turns |-> MaxTurns - 1, checkpoints |-> 0, failures |-> MaxFailures,
       selects |-> MaxSwitches, deletes |-> 0, rejected |-> {}] }

\* ------------------------------------------------------------- constants
SessionIds == {"s1", "s2"}
Turns == 1..MaxTurns
\* the model handles chromeAPI.createSession can return in one run
Handles == 1..(MaxSwitches + 1)
None == "none"

\* the cancellation marker of handleCancelResponse: "\n[Response cancelled]"
CancelMarker ==
    <<"\n", "[", "R", "e", "s", "p", "o", "n", "s", "e", " ",
      "c", "a", "n", "c", "e", "l", "l", "e", "d", "]">>

\* the content the catch block writes: 'Error: Failed to get response'
ErrorContent ==
    <<"E", "r", "r", "o", "r", ":", " ", "F", "a", "i", "l", "e", "d", " ",
      "t", "o", " ", "g", "e", "t", " ", "r", "e", "s", "p", "o", "n", "s", "e">>

\* what the user can type, what the model can stream or return
Inputs == { <<" ">>, <<" ", "h", "i", " ">> }
\* the k-th chunk of a streamed response: "Hel", "lo", "Hel", ...
Chunk(k) == IF k % 2 = 1 THEN <<"H", "e", "l">> ELSE <<"l", "o">>
Responses == { <<"H", "i">> }

\* ------------------------------------------------------------- variables
VARIABLES
    sessionStore,     \* object store 'sessions': the set of stored session ids
    msgStore,         \* object store 'messages': message id -> MessageRecord
    nextMsgId,        \* the next fresh message id (crypto.randomUUID)
    sessions,         \* AppState.sessions (the ids)
    currentSession,   \* AppState.currentSession (an id or None)
    currentMessages,  \* AppState.currentMessages
    error,            \* AppState.error (None or the message set)
    chromeSession,    \* AppState.chromeSession (0 = null, else a handle)
    inputText,        \* ChatInterface state
    isSubmitting,
    isStreaming,
    useStreaming,
    responseId,       \* 0 = null
    abortRef,         \* abortControllerRef.current: 0 = null, else the turn owning it
    aborted,          \* the controllers on which abort() was called
    turn,             \* the invocations of handleSendMessage
    pending,          \* MessageDB.update calls nobody awaits (checkpoints, cancel)
    loads,            \* loadSessions / loadMessages effects in progress
    selects,          \* handleSelectSession invocations awaiting createSession
    nextHandle,       \* the next fresh model handle
    del,              \* the handleDeleteSession invocation in progress
    usage,            \* inputUsage: of each model handle, of each stored
                      \* session record, of each session of AppState.sessions
    destroyed,        \* the handles on which destroy() was called
    createdFor,       \* the session whose parameters each handle was created with
    left,             \* what the environment may still do in this run, and
                      \* which kinds of request it has rejected so far
    db,               \* lib/database.ts called one operation at a time: the
                      \* two object stores with their dates, the clock, the
                      \* exported file and the last call with its result
    retry,            \* an invocation of chromeAPI.promptWithRetry
    api,              \* the Chrome capability as the page sees it, and one
                      \* invocation of a ChromeAPIService method on it
    rd,               \* one consumer of a streamed response and its reader
    conn,             \* lib/database.ts: dbInstance and the callers of initDB
    app,              \* appReducer taken alone: an AppState and the last
                      \* action dispatched on it
    form              \* a session creation form (SessionManager or
                      \* SessionCreator) and one invocation of its handler

storeVars == <<sessionStore, msgStore, nextMsgId>>
projVars == <<sessions, currentSession, currentMessages, error, chromeSession>>
chatVars == <<inputText, isSubmitting, isStreaming, useStreaming, responseId,
              abortRef, aborted>>
mgrVars == <<selects, nextHandle, del, usage, destroyed, createdFor>>
svcVars == <<api, rd, conn, app, form>>
libVars == <<db, retry, svcVars>>
vars == <<storeVars, projVars, chatVars, turn, pending, loads, mgrVars, left,
          libVars>>

\* ---------------------------------------------------------------- text
IsSpace(c) == c \in {" ", "\n", "\t"}

RECURSIVE TrimStart(_)
TrimStart(s) ==
    IF s = <<>> THEN <<>>
    ELSE IF IsSpace(Head(s)) THEN TrimStart(Tail(s)) ELSE s

RECURSIVE TrimEnd(_)
TrimEnd(s) ==
    IF s = <<>> THEN <<>>
    ELSE IF IsSpace(s[Len(s)]) THEN TrimEnd(SubSeq(s, 1, Len(s) - 1)) ELSE s

\* String.prototype.trim
Trim(s) == TrimEnd(TrimStart(s))

RECURSIVE Concat(_)
Concat(ss) == IF ss = <<>> THEN <<>> ELSE Head(ss) \o Concat(Tail(ss))


\* ------------------------------------------------------------- records
\* "no record": undefined / null
NoMsg == [id |-> 0]

\* {...a, ...b}: the fields of b override those of a
Spread(a, b) ==
    [f \in (DOMAIN a) \cup (DOMAIN b) |-> IF f \in DOMAIN b THEN b[f] ELSE a[f]]

\* Array.prototype.find(m => m.id === id); NoMsg when nothing matches
Find(msgs, id) ==
    IF \E i \in DOMAIN msgs : msgs[i].id = id
    THEN msgs[CHOOSE i \in DOMAIN msgs :
                  /\ msgs[i].id = id
                  /\ \A j \in DOMAIN msgs : msgs[j].id = id => i <= j]
    ELSE NoMsg

\* the record MessageDB.create builds: {...message, id, timestamp}
NewMessage(id, sid, role, content, streaming) ==
    [id |-> id, sessionId |-> sid, role |-> role, content |-> content,
     isStreaming |-> streaming, isError |-> FALSE]

\* ------------------------------------------------------- persistent store
\* db.add('messages', newMessage)
MessageDB_create(store, rec) == (rec.id :> rec) @@ store

\* db.get('messages', id): the record, or undefined
MessageDB_getById(store, id) == IF id \in DOMAIN store THEN store[id] ELSE NoMsg

\* db.put('messages', updated): put inserts when the key is absent
MessageDB_put(store, rec) == (rec.id :> rec) @@ store

\* the keys index 'by-session' holds for a session
BySession(store, sid) == {k \in DOMAIN store : store[k].sessionId = sid}

\* MessageDB.getBySessionId: the session's records in index order
RECURSIVE InOrder(_, _)
InOrder(store, keys) ==
    IF keys = {} THEN <<>>
    ELSE LET k == CHOOSE x \in keys : \A y \in keys : x <= y
         IN <<store[k]>> \o InOrder(store, keys \ {k})

MessageDB_getBySessionId(store, sid) == InOrder(store, BySession(store, sid))

\* MessageDB.deleteBySessionId: one transaction on 'messages'
MessageDB_deleteBySessionId(store, sid) ==
    [k \in (DOMAIN store) \ BySession(store, sid) |-> store[k]]

\* a deletion that leaves the messages of the session behind
SessionDB_delete_SessionOnly(sstore, mstore, sid) == << sstore \ {sid}, mstore >>

\* SessionDB.delete: one readwrite transaction over both stores; the pair
\* <<sessions, messages>> it commits
SessionDB_delete(sstore, mstore, sid) ==
    << sstore \ {sid},
       [k \in (DOMAIN mstore) \ BySession(mstore, sid) |-> mstore[k]] >>

\* ---------------------------------------------------------------- reducer
ADD_MESSAGE(msgs, m) == Append(msgs, m)

UPDATE_MESSAGE_Upsert(msgs, m) ==
    IF \E i \in DOMAIN msgs : "id" \in DOMAIN m /\ msgs[i].id = m.id
    THEN [i \in DOMAIN msgs |->
            IF "id" \in DOMAIN m /\ msgs[i].id = m.id THEN m ELSE msgs[i]]
    ELSE Append(msgs, m)

UPDATE_MESSAGE(msgs, m) ==
    [i \in DOMAIN msgs |->
        IF "id" \in DOMAIN m /\ msgs[i].id = m.id THEN m ELSE msgs[i]]

\* ------------------------------------------------------------------ turns
IdleTurn ==
    [pc |-> "idle",
     \* what the closure of this invocation captured from its render
     sessionId |-> None, chromeSession |-> 0, responseId |-> 0,
     messages |-> <<>>, useStreaming |-> TRUE,
     \* its locals
     content |-> <<>>,       \* inputText.trim()
     userMessage |-> NoMsg, aiMessage |-> NoMsg, accumulatedContent |-> <<>>,
     awaited |-> NoMsg,      \* the MessageDB.update it awaits: id and updates
     updated |-> NoMsg,      \* {...existing, ...updates} inside that update
     \* what happened in it
     chunks |-> <<>>,        \* the chunks read, in arrival order
     modelCalls |-> 0,       \* calls of prompt / promptStreaming
     finalUpdates |-> <<>>,  \* the final MessageDB.update calls issued
     failure |-> None,       \* why it left the normal path
     surfaced |-> FALSE,     \* setError was called by this turn
     cancelAt |-> <<>>]      \* <<content streamed>> when a cancel was requested

\* an invocation that returned: its closure and locals are gone
Returned(rec) ==
    [IdleTurn EXCEPT !.pc = "done",
                     !.aiMessage = rec.aiMessage,
                     !.useStreaming = rec.useStreaming,
                     !.modelCalls = rec.modelCalls,
                     !.failure = rec.failure,
                     !.surfaced = rec.surfaced,
                     !.cancelAt = rec.cancelAt]

InFlight(t) == turn[t].pc \notin {"idle", "done"}

NoDelete == [pc |-> "idle", sessionId |-> None, currentSession |-> None]

\* the database module before any call: empty stores, no file, no call made
NoCall == [op |-> "none"]
NoTrip == [stage |-> "none"]
NoFile == [exists |-> FALSE, json |-> [sessions |-> <<>>, messages |-> <<>>]]
EmptyDB ==
    [sessions |-> <<>>, messages |-> <<>>, clock |-> 1, ops |-> 0,
     file |-> NoFile, trip |-> NoTrip, last |-> NoCall]

\* no invocation of promptWithRetry
NoError == [name |-> "none", message |-> <<>>]
NoRetry ==
    [pc |-> "idle", maxRetries |-> 0, attempt |-> 0, calls |-> <<>>,
     waits |-> <<>>, lastError |-> NoError, result |-> <<>>,
     thrown |-> NoError]

\* the application as it is mounted
NoOutcome ==
    [ok |-> TRUE, status |-> "none", session |-> 0,
     params |-> [maxTopK |-> 0, maxTemperature |-> 0], cause |-> NoError]
NoValue == [supplied |-> FALSE, value |-> 0]
NoArgs == [topK |-> NoValue, temperature |-> NoValue, timeoutMs |-> 0]
NoResult == [status |-> "none", session |-> 0, valid |-> FALSE, errors |-> <<>>]
NoThrown == [name |-> "none", code |-> "none", message |-> <<>>]
NoApi ==
    [supported |-> FALSE, fn |-> "none", pc |-> "idle", args |-> NoArgs,
     calls |-> <<>>, seen |-> NoOutcome, observed |-> <<>>, elapsed |-> 0,
     result |-> NoResult, thrown |-> NoThrown]
NoReader ==
    [consumer |-> "none", pc |-> "idle", locked |-> FALSE, read |-> <<>>,
     exit |-> "none"]
NoConn == [dbInstance |-> 0, opens |-> 0, callers |-> <<>>]
\* initialState of AppContext.tsx, nothing dispatched yet
initialState ==
    [sessions |-> <<>>, currentSession |-> [id |-> None, inputUsage |-> 0],
     currentMessages |-> <<>>, isLoading |-> FALSE, error |-> None,
     chromeSession |-> 0]
NoApp == [state |-> initialState, action |-> [type |-> "none"]]
NoForm ==
    [component |-> "none", pc |-> "idle", isCreating |-> FALSE,
     name |-> <<>>, topK |-> NoValue, temperature |-> NoValue,
     outcome |-> "none", attempts |-> 0, handles |-> 0, persisted |-> 0,
     error |-> <<>>]
ServicesIdle ==
    api = NoApi /\ rd = NoReader /\ conn = NoConn /\ app = NoApp /\ form = NoForm

InitApp ==
    /\ sessionStore = SessionIds
    /\ msgStore = (1 :> NewMessage(1, "s2", "user", <<"h", "i">>, FALSE))
    /\ nextMsgId = 2
    /\ sessions = {}
    /\ currentSession = None
    /\ currentMessages = <<>>
    /\ error = None
    /\ chromeSession = 0
    /\ inputText = <<>>
    /\ isSubmitting = FALSE
    /\ isStreaming = FALSE
    /\ useStreaming = TRUE
    /\ responseId = 0
    /\ abortRef = 0
    /\ aborted = {}
    /\ turn = [t \in Turns |-> IdleTurn]
    /\ pending = {}
    /\ loads = {"sessions"}
    /\ selects = {}
    /\ nextHandle = 1
    /\ del = NoDelete
    /\ usage = [handle |-> [h \in Handles |-> 0],
                stored |-> [sid \in SessionIds |-> 0],
                projected |-> [sid \in SessionIds |-> 0]]
    /\ destroyed = {}
    /\ createdFor = [h \in Handles |-> None]

Init ==
    /\ InitApp
    /\ left \in Scenarios
    /\ db = EmptyDB
    /\ retry = NoRetry
    /\ ServicesIdle

\* ------------------------------------------------------------------ usage
\* chromeAPI.getSessionUsage(session).usage
getSessionUsage(h) == usage.handle[h]

\* the reducer's UPDATE_SESSION on the inputUsage of the listed sessions
UPDATE_SESSION(projected, sid, inputUsage) ==
    IF sid \in sessions THEN [projected EXCEPT ![sid] = inputUsage]
    ELSE projected

\* ----------------------------------------------------------------- errors
\* an error is its name and its message; a message is a sequence of pieces
AbortError == [name |-> "AbortError", message |-> <<"signal is aborted">>]
ModelError == [name |-> "UnknownError", message |-> <<"boom">>]
StorageError == [name |-> "QuotaExceededError", message |-> <<"quota exceeded">>]
\* `${error}`: Error.prototype.toString
ErrorToString(e) == <<e.name, ": ">> \o e.message
\* class PromptExecutionError extends ChromeAPIError: name is 'ChromeAPIError'
PromptExecutionError(message) ==
    [name |-> "ChromeAPIError",
     message |-> <<"Failed to execute prompt: ">> \o message]

\* the environment may still reject a request
Rejects == left.failures > 0
Spend(what) == [left EXCEPT ![what] = @ - 1]
Rejected(kind) == [left EXCEPT !.failures = @ - 1, !.rejected = @ \cup {kind}]

\* ------------------------------------------------- ChatInterface: helpers
\* the guard of handleSendMessage: false when the handler returns at once
CanSubmit(text, session, handle, submitting) ==
    ~(Trim(text) = <<>> \/ session = None \/ handle = 0 \/ submitting)

\* a placeholder that is not flagged as streaming
Placeholder_NotStreaming(id, sid) == NewMessage(id, sid, "assistant", <<>>, FALSE)

\* the placeholder handleSendMessage creates for the response
Placeholder(id, sid) == NewMessage(id, sid, "assistant", <<>>, TRUE)

\* an accumulator that keeps the last chunk only
Accumulate_Overwrite(acc, value) == value

\* accumulatedContent += value
Accumulate(acc, value) == acc \o value

\* the updates of handleStreamingResponse, per chunk and at the end
StreamingUpdate(acc) == [content |-> acc, isStreaming |-> TRUE]
FinalMessage(acc) == [content |-> acc, isStreaming |-> FALSE]

\* the updates of the catch block and of handleCancelResponse
ErrorMessage == [content |-> ErrorContent, isStreaming |-> FALSE, isError |-> TRUE]
CancelledUpdate(content) == [content |-> content \o CancelMarker, isStreaming |-> FALSE]

\* error.name !== 'AbortError'
Surfaces(e) == e.name # "AbortError"

\* the slot of the next invocation
FreeTurn ==
    CHOOSE t \in Turns :
        /\ turn[t].pc = "idle"
        /\ \A u \in Turns : turn[u].pc = "idle" => t <= u

\* component state as the running handler has left it so far
Now == [isStreaming |-> isStreaming, responseId |-> responseId, abortRef |-> abortRef]

\* a finally block that leaves the controller reference as it is
Finally_KeepsController(t, rec) ==
    /\ isSubmitting' = FALSE
    /\ isStreaming' = FALSE
    /\ UNCHANGED abortRef
    /\ responseId' = 0
    /\ turn' = [turn EXCEPT ![t] = Returned(rec)]

\* the finally block of handleSendMessage
Finally(t, rec) ==
    /\ isSubmitting' = FALSE
    /\ isStreaming' = FALSE
    /\ abortRef' = 0
    /\ responseId' = 0
    /\ turn' = [turn EXCEPT ![t] = Returned(rec)]

\* the catch block of handleSendMessage, up to its await or to the finally;
\* rec.responseId and rec.messages are those of the closure
Catch(t, rec, e, now) ==
    IF Surfaces(e)
    THEN /\ error' = "Failed to get response"
         /\ IF rec.responseId # 0
            THEN /\ turn' = [turn EXCEPT ![t] =
                        [rec EXCEPT !.pc = "errorGet", !.surfaced = TRUE,
                                    !.awaited = [id |-> rec.responseId,
                                                 updates |-> ErrorMessage]]]
                 /\ isStreaming' = now.isStreaming
                 /\ responseId' = now.responseId
                 /\ abortRef' = now.abortRef
                 /\ UNCHANGED isSubmitting
            ELSE Finally(t, [rec EXCEPT !.surfaced = TRUE])
    ELSE /\ UNCHANGED error
         /\ Finally(t, rec)

\* ------------------------------------------------ handleSendMessage: steps
HandleSendMessage ==
    /\ left.turns > 0
    /\ IF CanSubmit(inputText, currentSession, chromeSession, isSubmitting)
       THEN /\ isSubmitting' = TRUE
            /\ turn' = [turn EXCEPT ![FreeTurn] =
                   [IdleTurn EXCEPT !.pc = "createUser",
                                    !.sessionId = currentSession,
                                    !.chromeSession = chromeSession,
                                    !.responseId = responseId,
                                    !.messages = currentMessages,
                                    !.useStreaming = useStreaming,
                                    !.content = Trim(inputText)]]
            /\ left' = Spend("turns")
            /\ UNCHANGED <<storeVars, projVars, inputText, isStreaming,
                           useStreaming, responseId, abortRef, aborted,
                           pending, loads, mgrVars, libVars>>
       ELSE UNCHANGED vars

\* MessageDB.create of the user message resolved
UserMessageCreated(t) ==
    LET rec == turn[t]
        m == NewMessage(nextMsgId, rec.sessionId, "user", rec.content, FALSE)
    IN /\ rec.pc = "createUser"
       /\ msgStore' = MessageDB_create(msgStore, m)
       /\ nextMsgId' = nextMsgId + 1
       /\ currentMessages' = ADD_MESSAGE(currentMessages, m)
       /\ inputText' = <<>>
       /\ turn' = [turn EXCEPT ![t] = [rec EXCEPT !.pc = "createAi",
                                                   !.userMessage = m]]
       /\ UNCHANGED <<sessionStore, sessions, currentSession, error,
                      chromeSession, isSubmitting, isStreaming, useStreaming,
                      responseId, abortRef, aborted, pending, loads, mgrVars, libVars,
                      left>>

\* MessageDB.create of the user message or of the placeholder rejected
CreateFailed(t) ==
    LET rec == turn[t]
    IN /\ rec.pc \in {"createUser", "createAi"}
       /\ Rejects
       /\ left' = Rejected("store")
       /\ Catch(t, [rec EXCEPT !.failure = "create"], StorageError, Now)
       /\ UNCHANGED <<storeVars, sessions, currentSession, currentMessages,
                      chromeSession, inputText, useStreaming, aborted,
                      pending, loads, mgrVars, libVars>>

\* MessageDB.create of the placeholder resolved; the model is called
PlaceholderCreated(t) ==
    LET rec == turn[t]
        m == Placeholder(nextMsgId, rec.sessionId)
    IN /\ rec.pc = "createAi"
       /\ msgStore' = MessageDB_create(msgStore, m)
       /\ nextMsgId' = nextMsgId + 1
       /\ responseId' = m.id
       /\ currentMessages' = ADD_MESSAGE(currentMessages, m)
       /\ abortRef' = t
       /\ isStreaming' = (IF rec.useStreaming THEN TRUE ELSE isStreaming)
       /\ turn' = [turn EXCEPT ![t] =
              [rec EXCEPT !.pc = IF rec.useStreaming THEN "reading" ELSE "prompting",
                          !.aiMessage = m,
                          !.modelCalls = @ + 1]]
       \* the prompt is counted in the handle's inputUsage
       /\ usage' = [usage EXCEPT !.handle[rec.chromeSession] = @ + 1]
       /\ UNCHANGED <<sessionStore, sessions, currentSession, error,
                      chromeSession, inputText, isSubmitting, useStreaming,
                      aborted, pending, loads, selects, nextHandle, del, destroyed, createdFor, libVars, left>>

\* the same, but session.promptStreaming throws
PromptStreamingFailed(t) ==
    LET rec == turn[t]
        m == Placeholder(nextMsgId, rec.sessionId)
    IN /\ rec.pc = "createAi"
       /\ rec.useStreaming
       /\ Rejects
       /\ left' = Rejected("model")
       /\ msgStore' = MessageDB_create(msgStore, m)
       /\ nextMsgId' = nextMsgId + 1
       /\ currentMessages' = ADD_MESSAGE(currentMessages, m)
       /\ Catch(t, [rec EXCEPT !.aiMessage = m, !.modelCalls = @ + 1,
                               !.failure = "model"],
                PromptExecutionError(ErrorToString(ModelError)),
                [isStreaming |-> FALSE, responseId |-> m.id, abortRef |-> t])
       /\ UNCHANGED <<sessionStore, sessions, currentSession, chromeSession,
                      inputText, useStreaming, aborted, pending, loads,
                      mgrVars, libVars>>

\* ------------------------------------------ handleStreamingResponse: steps
\* a MessageDB.update call nobody awaits, at its db.get
Call(kind, id, updates, then) ==
    [kind |-> kind, id |-> id, pc |-> "get", updates |-> updates,
     updated |-> NoMsg, then |-> then]

\* reader.read() resolved with a chunk; checkpoint: Math.random() < 0.2
ChunkRead(t, checkpoint) ==
    LET rec == turn[t]
        value == Chunk(Len(rec.chunks) + 1)
        acc == Accumulate(rec.accumulatedContent, value)
        updatedMessage == StreamingUpdate(acc)
    IN /\ rec.pc = "reading"
       /\ t \notin aborted
       /\ Len(rec.chunks) < MaxChunks
       /\ checkpoint => left.checkpoints > 0
       /\ currentMessages' =
              UPDATE_MESSAGE(currentMessages, Spread(rec.aiMessage, updatedMessage))
       /\ pending' = IF checkpoint
                     THEN pending \cup
                          {Call("checkpoint", rec.aiMessage.id, updatedMessage, NoMsg)}
                     ELSE pending
       /\ left' = IF checkpoint THEN Spend("checkpoints") ELSE left
       /\ turn' = [turn EXCEPT ![t] =
              [rec EXCEPT !.chunks = Append(@, value),
                          !.accumulatedContent = acc]]
       /\ UNCHANGED <<storeVars, sessions, currentSession, error,
                      chromeSession, chatVars, loads, mgrVars, libVars>>

\* reader.read() resolved with done: the final update is issued
StreamDone(t) ==
    LET rec == turn[t]
        finalMessage == FinalMessage(rec.accumulatedContent)
    IN /\ rec.pc = "reading"
       /\ t \notin aborted
       /\ Len(rec.chunks) = MaxChunks
       /\ turn' = [turn EXCEPT ![t] =
              [rec EXCEPT !.pc = "finalGet",
                          !.awaited = [id |-> rec.aiMessage.id,
                                       updates |-> finalMessage],
                          !.finalUpdates = Append(@, finalMessage)]]
       /\ UNCHANGED <<storeVars, projVars, chatVars, pending, loads, mgrVars, libVars,
                      left>>

\* reader.read() rejected because the signal was aborted
StreamAborted(t) ==
    LET rec == turn[t]
    IN /\ rec.pc = "reading"
       /\ t \in aborted
       /\ Catch(t, [rec EXCEPT !.failure = "abort"], AbortError,
                [Now EXCEPT !.isStreaming = FALSE])
       /\ UNCHANGED <<storeVars, sessions, currentSession, currentMessages,
                      chromeSession, inputText, useStreaming, aborted,
                      pending, loads, mgrVars, libVars, left>>

\* reader.read() rejected because the model failed
StreamFailed(t) ==
    LET rec == turn[t]
    IN /\ rec.pc = "reading"
       /\ t \notin aborted
       /\ Rejects
       /\ left' = Rejected("model")
       /\ Catch(t, [rec EXCEPT !.failure = "model"], ModelError,
                [Now EXCEPT !.isStreaming = FALSE])
       /\ UNCHANGED <<storeVars, sessions, currentSession, currentMessages,
                      chromeSession, inputText, useStreaming, aborted,
                      pending, loads, mgrVars, libVars>>

\* --------------------------------------- handleNonStreamingResponse: steps
\* chromeAPI.prompt resolved: the update of the placeholder is issued
PromptResolved(t, response) ==
    LET rec == turn[t]
        updatedMessage == [content |-> response, isStreaming |-> FALSE]
    IN /\ rec.pc = "prompting"
       /\ t \notin aborted
       /\ turn' = [turn EXCEPT ![t] =
              [rec EXCEPT !.pc = "finalGet",
                          !.awaited = [id |-> rec.aiMessage.id,
                                       updates |-> updatedMessage],
                          !.finalUpdates = Append(@, updatedMessage)]]
       /\ UNCHANGED <<storeVars, projVars, chatVars, pending, loads, mgrVars, libVars,
                      left>>

\* session.prompt rejected, by the abort signal or by the model; prompt()
\* wraps whatever it caught
PromptFailed(t) ==
    LET rec == turn[t]
    IN /\ rec.pc = "prompting"
       /\ \/ /\ t \in aborted
             /\ Catch(t, [rec EXCEPT !.failure = "abort"],
                      PromptExecutionError(ErrorToString(AbortError)), Now)
             /\ UNCHANGED left
          \/ /\ t \notin aborted
             /\ Rejects
             /\ left' = Rejected("model")
             /\ Catch(t, [rec EXCEPT !.failure = "model"],
                      PromptExecutionError(ErrorToString(ModelError)), Now)
       /\ UNCHANGED <<storeVars, sessions, currentSession, currentMessages,
                      chromeSession, inputText, useStreaming, aborted,
                      pending, loads, mgrVars, libVars>>

\* ------------------------------------------- the awaited MessageDB.update
\* what follows the await: updateMessage, then the rest of handleSendMessage
Updated(t, rec) ==
    IF rec.pc \in {"finalGet", "finalPut"}
    THEN /\ currentMessages' =
                UPDATE_MESSAGE(currentMessages,
                               Spread(rec.aiMessage, rec.awaited.updates))
         \* updateSession({...currentSession, inputUsage, inputQuota}):
         \* UPDATE_SESSION replaces the current session, which re-runs the
         \* loadMessages effect
         /\ loads' = IF currentSession = rec.sessionId
                     THEN loads \cup {rec.sessionId} ELSE loads
         /\ usage' = [usage EXCEPT !.projected =
                UPDATE_SESSION(@, rec.sessionId, getSessionUsage(rec.chromeSession))]
         /\ Finally(t, rec)
    ELSE /\ currentMessages' =
                UPDATE_MESSAGE(currentMessages,
                               Spread(Find(rec.messages, rec.responseId),
                                      ErrorMessage))
         /\ UNCHANGED <<loads, usage>>
         /\ Finally(t, rec)

\* db.get inside MessageDB.update resolved
UpdateGet(t) ==
    LET rec == turn[t]
        existing == MessageDB_getById(msgStore, rec.awaited.id)
    IN /\ rec.pc \in {"finalGet", "errorGet"}
       /\ IF existing = NoMsg
          THEN Updated(t, rec)
          ELSE /\ turn' = [turn EXCEPT ![t] =
                      [rec EXCEPT !.pc = IF rec.pc = "finalGet"
                                         THEN "finalPut" ELSE "errorPut",
                                  !.updated = Spread(existing, rec.awaited.updates)]]
               /\ UNCHANGED <<currentMessages, loads, isSubmitting,
                              isStreaming, abortRef, responseId, usage>>
       /\ UNCHANGED <<storeVars, sessions, currentSession, error,
                      chromeSession, inputText, useStreaming, aborted,
                      pending, selects, nextHandle, del, destroyed, createdFor, libVars, left>>

\* db.put inside MessageDB.update resolved
UpdatePut(t) ==
    LET rec == turn[t]
    IN /\ rec.pc \in {"finalPut", "errorPut"}
       /\ msgStore' = MessageDB_put(msgStore, rec.updated)
       /\ Updated(t, rec)
       /\ UNCHANGED <<sessionStore, nextMsgId, sessions, currentSession,
                      error, chromeSession, inputText, useStreaming, aborted,
                      pending, selects, nextHandle, del, destroyed, createdFor, libVars, left>>

\* the awaited MessageDB.update rejected; inside the catch block the
\* rejection leaves through the finally
UpdateFailed(t) ==
    LET rec == turn[t]
    IN /\ rec.pc \in {"finalGet", "finalPut", "errorGet", "errorPut"}
       /\ Rejects
       /\ left' = Rejected("store")
       /\ IF rec.pc \in {"finalGet", "finalPut"}
          THEN Catch(t, [rec EXCEPT !.failure = "update"], StorageError,
                     [Now EXCEPT !.isStreaming =
                          IF rec.useStreaming THEN FALSE ELSE isStreaming])
          ELSE /\ UNCHANGED error
               /\ Finally(t, rec)
       /\ UNCHANGED <<storeVars, sessions, currentSession, currentMessages,
                      chromeSession, inputText, useStreaming, aborted,
                      pending, loads, mgrVars, libVars>>

\* ---------------------------------------------------- handleCancelResponse
\* a click on the Cancel button of row i, shown while that message streams
HandleCancelResponse(i) ==
    LET cancelledMessage == Find(currentMessages, responseId)
        asked == {u \in Turns : /\ turn[u].pc = "reading"
                                /\ turn[u].aiMessage.id = currentMessages[i].id
                                /\ turn[u].cancelAt = <<>>}
    IN /\ i \in DOMAIN currentMessages
       /\ currentMessages[i].isStreaming
       /\ turn' = [u \in Turns |->
              IF u \in asked
              THEN [turn[u] EXCEPT !.cancelAt = <<turn[u].accumulatedContent>>]
              ELSE turn[u]]
       /\ IF abortRef # 0
          THEN /\ aborted' = aborted \cup {abortRef}
               /\ abortRef' = 0
               /\ isStreaming' = FALSE
               /\ isSubmitting' = FALSE
               /\ pending' =
                    IF responseId # 0 /\ cancelledMessage # NoMsg
                    THEN pending \cup
                         {Call("cancel", responseId,
                               CancelledUpdate(cancelledMessage.content),
                               Spread(cancelledMessage,
                                      CancelledUpdate(cancelledMessage.content)))}
                    ELSE pending
          ELSE UNCHANGED <<aborted, abortRef, isStreaming, isSubmitting, pending>>
       /\ UNCHANGED <<storeVars, projVars, inputText, useStreaming,
                      responseId, loads, mgrVars, libVars, left>>

\* ---------------------------------------- MessageDB.update nobody awaits
\* what follows the call: the .then of handleCancelResponse
Then(call) ==
    /\ pending' = pending \ {call}
    /\ currentMessages' = IF call.kind = "cancel"
                          THEN UPDATE_MESSAGE(currentMessages, call.then)
                          ELSE currentMessages

PendingGet(call) ==
    LET existing == MessageDB_getById(msgStore, call.id)
    IN /\ call \in pending
       /\ call.pc = "get"
       /\ IF existing = NoMsg
          THEN Then(call)
          ELSE /\ pending' = (pending \ {call}) \cup
                      {[call EXCEPT !.pc = "put",
                                    !.updated = Spread(existing, call.updates)]}
               /\ UNCHANGED currentMessages
       /\ UNCHANGED <<storeVars, sessions, currentSession, error,
                      chromeSession, chatVars, turn, loads, mgrVars, libVars, left>>

PendingPut(call) ==
    /\ call \in pending
    /\ call.pc = "put"
    /\ msgStore' = MessageDB_put(msgStore, call.updated)
    /\ Then(call)
    /\ UNCHANGED <<sessionStore, nextMsgId, sessions, currentSession, error,
                   chromeSession, chatVars, turn, loads, mgrVars, libVars, left>>

\* the call rejected: .catch(console.error)
PendingFailed(call) ==
    /\ call \in pending
    /\ Rejects
    /\ left' = Rejected("store")
    /\ pending' = pending \ {call}
    /\ UNCHANGED <<storeVars, projVars, chatVars, turn, loads, mgrVars, libVars>>

\* ------------------------------------------------------ the input controls
\* the textarea is disabled without a session and while submitting
HandleInputChange(value) ==
    /\ currentSession # None
    /\ ~isSubmitting
    /\ left.turns > 0
    /\ inputText # value
    /\ inputText' = value
    /\ UNCHANGED <<storeVars, projVars, isSubmitting, isStreaming,
                   useStreaming, responseId, abortRef, aborted, turn, pending,
                   loads, mgrVars, libVars, left>>

\* the streaming checkbox is disabled while submitting
ToggleStreaming ==
    /\ ~isSubmitting
    /\ left.turns > 0
    /\ useStreaming' = ~useStreaming
    /\ UNCHANGED <<storeVars, projVars, inputText, isSubmitting, isStreaming,
                   responseId, abortRef, aborted, turn, pending, loads,
                   mgrVars, libVars, left>>

\* ---------------------------------------------------- AppProvider effects
\* loadSessions: SessionDB.getAll resolved
LoadSessions ==
    /\ "sessions" \in loads
    /\ loads' = loads \ {"sessions"}
    /\ sessions' = sessionStore
    /\ usage' = [usage EXCEPT !.projected = usage.stored]
    /\ UNCHANGED <<storeVars, currentSession, currentMessages, error,
                   chromeSession, chatVars, turn, pending, selects, nextHandle, del, destroyed, createdFor, libVars, left>>

\* a load that adds what it read to the list instead of replacing it
LoadMessages_Append(sid) ==
    /\ sid \in loads
    /\ loads' = loads \ {sid}
    /\ currentMessages' = currentMessages \o MessageDB_getBySessionId(msgStore, sid)
    /\ UNCHANGED <<storeVars, sessions, currentSession, error, chromeSession,
                   chatVars, turn, pending, mgrVars, libVars, left>>

\* loadMessages: MessageDB.getBySessionId resolved
LoadMessages(sid) ==
    /\ sid \in loads
    /\ loads' = loads \ {sid}
    /\ currentMessages' = MessageDB_getBySessionId(msgStore, sid)
    /\ UNCHANGED <<storeVars, sessions, currentSession, error, chromeSession,
                   chatVars, turn, pending, mgrVars, libVars, left>>

\* either read rejected
LoadFailed(what) ==
    /\ what \in loads
    /\ Rejects
    /\ left' = Rejected("store")
    /\ loads' = loads \ {what}
    /\ error' = IF what = "sessions" THEN "Failed to load sessions"
                ELSE "Failed to load messages"
    /\ UNCHANGED <<storeVars, sessions, currentSession, currentMessages,
                   chromeSession, chatVars, turn, pending, mgrVars, libVars>>

\* --------------------------------------------------------- SessionManager
\* an invocation of handleSelectSession(session): session is the record of
\* the list that was clicked
Selecting(sid) ==
    [sessionId |-> sid, inputUsage |-> usage.projected[sid], pc |-> "create",
     chromeSession |-> 0]

\* handleSelectSession up to its await of chromeAPI.createSession
HandleSelectSession(sid) ==
    /\ sid \in sessions
    /\ left.selects > 0
    /\ left' = Spend("selects")
    /\ currentSession' = sid
    /\ loads' = loads \cup {sid}
    /\ selects' = selects \cup {Selecting(sid)}
    /\ UNCHANGED <<storeVars, sessions, currentMessages, error, chromeSession,
                   chatVars, turn, pending, nextHandle, del, usage, destroyed, createdFor, libVars>>

\* chromeAPI.createSession resolved: setChromeSession, then the comparison
\* of the new handle's usage with that of the clicked record
SessionHandleCreated(sel) ==
    /\ sel.pc = "create"
    /\ chromeSession' = nextHandle
    /\ nextHandle' = nextHandle + 1
    /\ createdFor' = [createdFor EXCEPT ![nextHandle] = sel.sessionId]
    /\ selects' = IF getSessionUsage(nextHandle) # sel.inputUsage
                  THEN (selects \ {sel}) \cup
                       {[sel EXCEPT !.pc = "updateGet",
                                    !.chromeSession = nextHandle]}
                  ELSE selects \ {sel}
    /\ UNCHANGED <<storeVars, sessions, currentSession, currentMessages,
                   error, chatVars, turn, pending, loads, del, usage,
                   destroyed, libVars, left>>

\* chromeAPI.createSession rejected
SessionHandleFailed(sel) ==
    /\ sel.pc = "create"
    /\ Rejects
    /\ left' = Rejected("model")
    /\ selects' = selects \ {sel}
    /\ error' = "Failed to load session"
    /\ UNCHANGED <<storeVars, sessions, currentSession, currentMessages,
                   chromeSession, chatVars, turn, pending, loads, nextHandle,
                   del, usage, destroyed, createdFor, libVars>>

\* what follows the await of SessionDB.update: updateSession({...session,
\* inputUsage}); UPDATE_SESSION replaces the current session when it has
\* this id, which re-runs the loadMessages effect
SessionUpdated(sel) ==
    /\ selects' = selects \ {sel}
    /\ loads' = IF currentSession = sel.sessionId
                THEN loads \cup {sel.sessionId} ELSE loads

\* db.get inside SessionDB.update resolved
SelectUpdateGet(sel) ==
    /\ sel.pc = "updateGet"
    /\ IF sel.sessionId \notin sessionStore
       THEN /\ SessionUpdated(sel)
            /\ usage' = [usage EXCEPT !.projected =
                   UPDATE_SESSION(@, sel.sessionId, getSessionUsage(sel.chromeSession))]
       ELSE /\ selects' = (selects \ {sel}) \cup {[sel EXCEPT !.pc = "updatePut"]}
            /\ UNCHANGED <<loads, usage>>
    /\ UNCHANGED <<storeVars, sessions, currentSession, currentMessages,
                   error, chromeSession, chatVars, turn, pending, nextHandle,
                   del, destroyed, createdFor, libVars, left>>

\* db.put inside SessionDB.update resolved
SelectUpdatePut(sel) ==
    LET inputUsage == getSessionUsage(sel.chromeSession)
    IN /\ sel.pc = "updatePut"
       /\ sessionStore' = sessionStore \cup {sel.sessionId}
       /\ SessionUpdated(sel)
       /\ usage' = [usage EXCEPT
              !.stored[sel.sessionId] = inputUsage,
              !.projected = UPDATE_SESSION(@, sel.sessionId, inputUsage)]
       /\ UNCHANGED <<msgStore, nextMsgId, sessions, currentSession,
                      currentMessages, error, chromeSession, chatVars, turn,
                      pending, nextHandle, del, destroyed, createdFor, libVars, left>>

\* SessionDB.update rejected
SelectUpdateFailed(sel) ==
    /\ sel.pc \in {"updateGet", "updatePut"}
    /\ Rejects
    /\ left' = Rejected("store")
    /\ selects' = selects \ {sel}
    /\ error' = "Failed to load session"
    /\ UNCHANGED <<storeVars, sessions, currentSession, currentMessages,
                   chromeSession, chatVars, turn, pending, loads, nextHandle,
                   del, usage, destroyed, createdFor, libVars>>

\* handleDeleteSession up to its await of SessionDB.delete
HandleDeleteSession(sid) ==
    /\ sid \in sessions
    /\ del.pc = "idle"
    /\ left.deletes > 0
    /\ left' = Spend("deletes")
    /\ del' = [pc |-> "sessionDelete", sessionId |-> sid,
               currentSession |-> currentSession]
    /\ UNCHANGED <<storeVars, projVars, chatVars, turn, pending, loads,
                   selects, nextHandle, usage, destroyed, createdFor, libVars>>

\* SessionDB.delete committed
SessionDeleted ==
    LET committed == SessionDB_delete(sessionStore, msgStore, del.sessionId)
    IN /\ del.pc = "sessionDelete"
       /\ sessionStore' = committed[1]
       /\ msgStore' = committed[2]
       /\ del' = [del EXCEPT !.pc = "messagesDelete"]
       /\ UNCHANGED <<nextMsgId, projVars, chatVars, turn, pending, loads,
                      selects, nextHandle, usage, destroyed, createdFor, libVars, left>>

\* MessageDB.deleteBySessionId committed; the rest of handleDeleteSession
MessagesDeleted ==
    LET sid == del.sessionId
        \* DELETE_SESSION, then setCurrentSession(null) for the closure's session
        cleared == currentSession = sid \/ del.currentSession = sid
    IN /\ del.pc = "messagesDelete"
       /\ msgStore' = MessageDB_deleteBySessionId(msgStore, sid)
       /\ sessions' = sessions \ {sid}
       /\ currentSession' = IF cleared THEN None ELSE currentSession
       \* without a current session the loadMessages effect empties the list
       /\ currentMessages' = IF cleared THEN <<>> ELSE currentMessages
       /\ chromeSession' = IF del.currentSession = sid THEN 0 ELSE chromeSession
       /\ del' = NoDelete
       /\ UNCHANGED <<sessionStore, nextMsgId, error, chatVars, turn, pending,
                      loads, selects, nextHandle, usage, destroyed, createdFor, libVars, left>>

\* either transaction aborted
DeleteFailed ==
    /\ del.pc \in {"sessionDelete", "messagesDelete"}
    /\ Rejects
    /\ left' = Rejected("store")
    /\ error' = "Failed to delete session"
    /\ del' = NoDelete
    /\ UNCHANGED <<storeVars, sessions, currentSession, currentMessages,
                   chromeSession, chatVars, turn, pending, loads, selects,
                   nextHandle, usage, destroyed, createdFor, libVars>>

\* ------------------------------------------------------------------- runs
Next ==
    \/ HandleSendMessage
    \/ \E t \in Turns : UserMessageCreated(t)
    \/ \E t \in Turns : CreateFailed(t)
    \/ \E t \in Turns : PlaceholderCreated(t)
    \/ \E t \in Turns : PromptStreamingFailed(t)
    \/ \E t \in Turns, checkpoint \in BOOLEAN : ChunkRead(t, checkpoint)
    \/ \E t \in Turns : StreamDone(t)
    \/ \E t \in Turns : StreamAborted(t)
    \/ \E t \in Turns : StreamFailed(t)
    \/ \E t \in Turns, response \in Responses : PromptResolved(t, response)
    \/ \E t \in Turns : PromptFailed(t)
    \/ \E t \in Turns : UpdateGet(t)
    \/ \E t \in Turns : UpdatePut(t)
    \/ \E t \in Turns : UpdateFailed(t)
    \/ \E i \in 1..(2 * MaxTurns + 1) : HandleCancelResponse(i)
    \/ \E call \in pending : PendingGet(call)
    \/ \E call \in pending : PendingPut(call)
    \/ \E call \in pending : PendingFailed(call)
    \/ \E value \in Inputs : HandleInputChange(value)
    \/ ToggleStreaming
    \/ LoadSessions
    \/ \E sid \in SessionIds : LoadMessages(sid)
    \/ \E what \in loads : LoadFailed(what)
    \/ \E sid \in SessionIds : HandleSelectSession(sid)
    \/ \E sel \in selects : SessionHandleCreated(sel)
    \/ \E sel \in selects : SessionHandleFailed(sel)
    \/ \E sel \in selects : SelectUpdateGet(sel)
    \/ \E sel \in selects : SelectUpdatePut(sel)
    \/ \E sel \in selects : SelectUpdateFailed(sel)
    \/ \E sid \in SessionIds : HandleDeleteSession(sid)
    \/ SessionDeleted
    \/ MessagesDeleted
    \/ DeleteFailed

Spec == Init /\ [][Next]_vars

\* ------------------------------------------------------------ properties
Stored(id) == id \in DOMAIN msgStore
Quiescent == pending = {} /\ \A t \in Turns : ~InFlight(t)
StoreWorked == "store" \notin left.rejected

\* C1: the step that removes a session from the store removes, in the same
\* step, every message of that session and nothing else; a deletion that
\* fails leaves both stores as they were.
C1_DeleteIsAtomic ==
    [][ /\ \A sid \in SessionIds :
             (sid \in sessionStore /\ sid \notin sessionStore') =>
                 /\ sessionStore' = sessionStore \ {sid}
                 /\ BySession(msgStore', sid) = {}
                 /\ DOMAIN msgStore' = (DOMAIN msgStore) \ BySession(msgStore, sid)
                 /\ \A k \in DOMAIN msgStore' : msgStore'[k] = msgStore[k]
        /\ (del.pc = "sessionDelete" /\ del'.pc = "idle") =>
                 UNCHANGED <<sessionStore, msgStore>> ]_vars

\* SessionDB.delete has removed session s2 with its message; a message of
\* session s1 is still stored
C1_Witness ==
    /\ del.pc = "messagesDelete"
    /\ del.sessionId = "s2"
    /\ "s2" \notin sessionStore
    /\ ~Stored(1)
    /\ BySession(msgStore, "s1") # {}

\* C2: once handleDeleteSession has finished and the session is gone from
\* the store, no stored message references the session.
C2_NoMessageOfDeletedSession ==
    \A sid \in SessionIds :
        (sid \notin sessionStore /\ del.pc = "idle") => BySession(msgStore, sid) = {}

\* C3: at most one invocation of handleSendMessage is in flight.
C3_AtMostOneTurnInFlight == Cardinality({t \in Turns : InFlight(t)}) <= 1

\* C4: a submit is accepted only with a non-blank input, a current session,
\* a model handle and no turn in flight; an accepted submit first persists
\* the user message (or fails doing so).
C4_SubmitAccepted ==
    [][ \A t \in Turns :
          /\ (turn[t].pc = "idle" /\ turn'[t].pc # "idle") =>
                 /\ Trim(inputText) # <<>>
                 /\ currentSession # None
                 /\ chromeSession # 0
                 /\ \A u \in Turns : ~InFlight(u)
                 /\ turn'[t].pc = "createUser"
                 /\ turn'[t].content = Trim(inputText)
                 /\ UNCHANGED <<storeVars, projVars>>
          /\ (turn[t].pc = "createUser" /\ turn'[t].pc # "createUser") =>
                 \/ /\ turn'[t].pc = "createAi"
                    /\ turn'[t].userMessage.id \in DOMAIN msgStore'
                    /\ turn'[t].userMessage.content = turn[t].content
                 \/ turn'[t].failure = "create" ]_vars

\* C5: in a turn the user message is persisted in an earlier step than the
\* placeholder; the placeholder is stored empty and flagged isStreaming; the
\* model is called only with the placeholder stored, and never in a turn
\* whose user message or placeholder could not be persisted.
C5_PersistOrder ==
    [][ \A t \in Turns :
          /\ (turn[t].userMessage.id = 0 /\ turn'[t].userMessage.id # 0) =>
                 /\ msgStore'[turn'[t].userMessage.id] = turn'[t].userMessage
                 /\ turn'[t].aiMessage.id = 0
                 /\ turn'[t].modelCalls = 0
          /\ (turn[t].aiMessage.id = 0 /\ turn'[t].aiMessage.id # 0) =>
                 /\ turn[t].userMessage.id # 0
                 /\ turn[t].modelCalls = 0
                 /\ turn'[t].aiMessage.role = "assistant"
                 /\ turn'[t].aiMessage.content = <<>>
                 /\ turn'[t].aiMessage.isStreaming
                 /\ msgStore'[turn'[t].aiMessage.id] = turn'[t].aiMessage
          /\ turn'[t].modelCalls > 0 => turn'[t].aiMessage.id # 0
          /\ turn'[t].failure = "create" => turn'[t].modelCalls = 0 ]_vars

\* one turn ended because a message could not be persisted and never called
\* the model; another one, not streaming, called the model after both of its
\* messages were stored
C5_Witness ==
    \E t, u \in Turns :
        /\ turn[t].pc = "done" /\ turn[t].failure = "create"
        /\ turn[t].modelCalls = 0
        /\ turn[u].pc = "prompting" /\ turn[u].modelCalls = 1
        /\ Stored(turn[u].userMessage.id) /\ Stored(turn[u].aiMessage.id)
        /\ turn[u].userMessage.id < turn[u].aiMessage.id

\* the rows of the projection that show message id
Rows(msgs, id) == {i \in DOMAIN msgs : msgs[i].id = id}

\* C6: a streaming turn issues its final update once, when the stream is
\* done; from then on no chunk is read; the update carries the chunks
\* concatenated in arrival order and isStreaming = FALSE; when it has been
\* stored, the store and then the projection show that content and flag.
C6_FinalUpdate ==
    [][ \A t \in Turns :
          LET rec == turn[t]
              id == rec.aiMessage.id
              final == [content |-> Concat(rec.chunks), isStreaming |-> FALSE]
          IN /\ Len(turn'[t].finalUpdates) <= 1
             /\ (rec.pc = "reading" /\ turn'[t].pc = "finalGet") =>
                    /\ turn'[t].finalUpdates = <<final>>
                    /\ turn'[t].awaited = [id |-> id, updates |-> final]
             /\ (rec.useStreaming /\ rec.pc \in {"finalGet", "finalPut"}
                    /\ turn'[t].pc # "done") =>
                    /\ turn'[t].chunks = rec.chunks
                    /\ turn'[t].finalUpdates = rec.finalUpdates
             /\ (rec.useStreaming /\ rec.pc = "finalPut" /\ turn'[t].pc = "done"
                    /\ turn'[t].failure = None) =>
                    /\ msgStore'[id].content = Concat(rec.chunks)
                    /\ ~msgStore'[id].isStreaming
                    /\ \A i \in Rows(currentMessages', id) :
                           /\ currentMessages'[i].content = Concat(rec.chunks)
                           /\ ~currentMessages'[i].isStreaming ]_vars

\* a streaming turn that nobody cancelled has ended normally after "Hel" and
\* "lo"; the store and the projection show "Hello", not streaming
C6_Witness ==
    \E t \in Turns :
        LET id == turn[t].aiMessage.id
        IN /\ turn[t].pc = "done" /\ turn[t].useStreaming
           /\ turn[t].failure = None /\ t \notin aborted
           /\ Stored(id)
           /\ msgStore[id].content = <<"H", "e", "l", "l", "o">>
           /\ ~msgStore[id].isStreaming
           /\ Rows(currentMessages, id) # {}
           /\ \A i \in Rows(currentMessages, id) :
                  /\ currentMessages[i].content = <<"H", "e", "l", "l", "o">>
                  /\ ~currentMessages[i].isStreaming

\* C7: the stored record of a placeholder never gets shorter while it is
\* flagged isStreaming, and once the flag is FALSE it is never TRUE again.
C7_StoredPlaceholderMonotone ==
    [][ \A id \in (DOMAIN msgStore) \cap (DOMAIN msgStore') :
          msgStore[id].role = "assistant" =>
              /\ (msgStore[id].isStreaming /\ msgStore'[id].isStreaming) =>
                     Len(msgStore'[id].content) >= Len(msgStore[id].content)
              /\ ~msgStore[id].isStreaming => ~msgStore'[id].isStreaming ]_vars

\* C8: when Cancel was clicked on the placeholder of a turn that was reading
\* its stream, then, once that turn has ended and nothing is pending, the
\* stream was aborted and, unless the store rejected a request, the stored
\* placeholder holds the content streamed up to the click followed by the
\* cancellation marker, not streaming.
C8_CancelledContent ==
    \A t \in Turns :
        LET id == turn[t].aiMessage.id
        IN (turn[t].cancelAt # <<>> /\ Quiescent /\ StoreWorked /\ Stored(id)) =>
               /\ t \in aborted
               /\ msgStore[id].content = turn[t].cancelAt[1] \o CancelMarker
               /\ ~msgStore[id].isStreaming

\* C9: a turn that ended by its cancellation has not set the error slot and
\* its stored placeholder is not flagged isError.
C9_CancelNotSurfaced ==
    \A t \in Turns :
        LET id == turn[t].aiMessage.id
        IN turn[t].failure = "abort" =>
               /\ ~turn[t].surfaced
               /\ Stored(id) => ~msgStore[id].isError

\* C10: when a turn has ended because its model call or stream failed, the
\* error slot was set and, unless the store rejected a request, the
\* placeholder is stored and projected with isStreaming = FALSE and
\* isError = TRUE.
C10_FailureMarksPlaceholder ==
    \A t \in Turns :
        LET id == turn[t].aiMessage.id
        IN (turn[t].pc = "done" /\ turn[t].failure = "model" /\ Quiescent
               /\ StoreWorked /\ Stored(id)) =>
               /\ turn[t].surfaced
               /\ msgStore[id].isError /\ ~msgStore[id].isStreaming
               /\ \A i \in Rows(currentMessages, id) :
                      currentMessages[i].isError /\ ~currentMessages[i].isStreaming

\* C11: the step in which a turn whose placeholder was created returns
\* (finalized, cancelled or errored) leaves the owning session's inputUsage
\* equal to that of the turn's model handle, in the stored session record
\* and in the listed session of the projection.
C11_TerminalWritesUsage ==
    [][\A t \in Turns :
          (/\ InFlight(t)
           /\ turn'[t].pc = "done"
           /\ turn'[t].aiMessage.id # 0
           /\ StoreWorked') =>
              LET sid == turn[t].sessionId
                  h == turn[t].chromeSession
              IN /\ sid \in sessionStore' =>
                        usage'.stored[sid] = usage'.handle[h]
                 /\ sid \in sessions' =>
                        usage'.projected[sid] = usage'.handle[h]]_vars

\* C12: the step that installs a model handle in the projection while
\* another one is installed finds the previous handle destroyed.
C12_PreviousHandleDisposed ==
    [][(/\ chromeSession # 0
        /\ chromeSession' # 0
        /\ chromeSession' # chromeSession) =>
           chromeSession \in destroyed']_vars

\* C13: once a session is selected and every load, selection and deletion
\* has settled, with no message sent in the run, the projection's message
\* list is what the store holds for the current session, in order.
C13_SwitchLoadsMessages ==
    (/\ currentSession # None
     /\ loads = {} /\ selects = {} /\ pending = {}
     /\ del.pc = "idle"
     /\ \A t \in Turns : turn[t].pc = "idle"
     /\ StoreWorked) =>
        currentMessages = MessageDB_getBySessionId(msgStore, currentSession)

\* =================================================== lib/database.ts by call
\* The operations of SessionDB, MessageDB and DataManager, and the export,
\* clear and import handlers of the data manager component, called one at a
\* time on a database that starts empty.  A date field holds a Date, the ISO
\* string JSON.stringify makes of it, or nothing.

\* the clock readings of one run, the calls of one run
MaxClock == 3
MaxOps == 4

Missing == "undefined"
Undefined == [type |-> "undefined", ms |-> 0]
Date(ms) == [type |-> "Date", ms |-> ms]
\* Date.prototype.toISOString, as a JSON string
ISOString(ms) == [type |-> "string", ms |-> ms]

MessageIds == {"m1", "m2"}
DateFields == {"createdAt", "updatedAt", "timestamp"}

\* --------------------------------------------------------------- IndexedDB
\* a value that is a valid key: here a Date or a string
ValidKey(v) == v.type \in {"Date", "string"}

\* the order of keys: Number < Date < String < Array, then by value (ISO
\* strings of one format compare as their instants do)
KeyRank(v) == IF v.type = "Date" THEN 2 ELSE 3
KeyLE(a, b) ==
    \/ KeyRank(a) < KeyRank(b)
    \/ KeyRank(a) = KeyRank(b) /\ a.ms <= b.ms

\* the order of the primary keys used here
IdOrder == <<"m1", "m2", "s1", "s2">>
IdRank(id) == CHOOSE i \in DOMAIN IdOrder : IdOrder[i] = id

RECURSIVE Ascending(_, _, _)
\* the records under keys, by field (by primary key when field is "id"),
\* ascending, ties by primary key: the order of an index
Ascending(store, keys, field) ==
    IF keys = {} THEN <<>>
    ELSE LET First(x) ==
                 \A y \in keys :
                     IF field = "id" \/ store[x][field] = store[y][field]
                     THEN IdRank(x) <= IdRank(y)
                     ELSE KeyLE(store[x][field], store[y][field])
             k == CHOOSE x \in keys : First(x)
         IN <<store[k]>> \o Ascending(store, keys \ {k}, field)

\* an index holds the records whose key path yields a valid key
Index(store, field) == {k \in DOMAIN store : ValidKey(store[k][field])}

\* objectStore.put(value) with keyPath 'id': a value without id is a
\* DataError, thrown by the call
Puttable(value) == value.id # Missing
put(store, value) == (value.id :> value) @@ store

\* -------------------------------------------------------------- SessionDB
SessionDB_create(store, id, session, now) ==
    put(store, Spread(session, [id |-> id, createdAt |-> Date(now),
                                updatedAt |-> Date(now)]))

\* db.getAllFromIndex('sessions', 'by-updated')
SessionDB_getAll(store) == Ascending(store, Index(store, "updatedAt"), "updatedAt")

\* SessionDB.update that stores a record whether or not one exists
SessionDB_update_Upsert(store, id, updates, now) ==
    LET existing == IF id \in DOMAIN store THEN store[id] ELSE [id |-> id]
        updated == Spread(Spread(existing, updates), [updatedAt |-> Date(now)])
    IN [store |-> put(store, updated), result |-> updated]
SessionDB_update(store, id, updates, now) ==
    IF id \notin DOMAIN store
    THEN [store |-> store, result |-> Undefined]
    ELSE LET updated == Spread(Spread(store[id], updates),
                               [updatedAt |-> Date(now)])
         IN [store |-> put(store, updated), result |-> updated]

\* -------------------------------------------------------------- MessageDB
MessageDB_createAt(store, id, message, now) ==
    put(store, Spread(message, [id |-> id, timestamp |-> Date(now)]))

\* db.getAllFromIndex('messages', 'by-session-timestamp',
\*     IDBKeyRange.bound([sessionId, new Date(0)], [sessionId, new Date()]))
MessageDB_getBySessionIdAt(store, sid, now) ==
    Ascending(store,
              {k \in Index(store, "timestamp") :
                   /\ store[k].sessionId = sid
                   /\ KeyLE(Date(0), store[k].timestamp)
                   /\ KeyLE(store[k].timestamp, Date(now))},
              "timestamp")

MessageDB_update(store, id, updates) ==
    IF id \notin DOMAIN store
    THEN [store |-> store, result |-> Undefined]
    ELSE LET updated == Spread(store[id], updates)
         IN [store |-> put(store, updated), result |-> updated]

\* ------------------------------------------------------------ DataManager
\* db.getAll('messages'): by primary key
DataManager_exportData(sessionRecords, messageRecords) ==
    [sessions |-> SessionDB_getAll(sessionRecords),
     messages |-> Ascending(messageRecords, DOMAIN messageRecords, "id")]

\* the puts of one loop of importData, in order, up to the first that throws
RECURSIVE PutEach(_, _)
PutEach(store, values) ==
    IF values = <<>> THEN [store |-> store, thrown |-> FALSE]
    ELSE IF ~Puttable(Head(values)) THEN [store |-> store, thrown |-> TRUE]
    ELSE PutEach(put(store, Head(values)), Tail(values))

\* importData: the exception of a put leaves the function before tx.done
\* and aborts nothing, so the puts made before it are committed
DataManager_importData(sessionRecords, messageRecords, data) ==
    LET s == PutEach(sessionRecords, data.sessions)
        m == IF s.thrown THEN [store |-> messageRecords, thrown |-> TRUE]
             ELSE PutEach(messageRecords, data.messages)
    IN [sessions |-> s.store, messages |-> m.store, ok |-> ~m.thrown]

\* ------------------------------------------------- JSON, the exported file
\* JSON.stringify of a record: a Date becomes its ISO string
ToJSON(rec) ==
    [f \in DOMAIN rec |->
        IF f \in DateFields /\ rec[f].type = "Date" THEN ISOString(rec[f].ms)
        ELSE rec[f]]
Each(records, Op(_)) == [i \in DOMAIN records |-> Op(records[i])]
\* the text is represented by the JSON value it denotes
JSON_stringify(data) ==
    [exists |-> TRUE,
     json |-> [sessions |-> Each(data.sessions, ToJSON),
               messages |-> Each(data.messages, ToJSON)]]
\* JSON.parse without reviver: strings stay strings
JSON_parse(text) == text.json

\* files a user can pick besides the exported one
SessionJSON(id, inputUsage, at) ==
    [id |-> id, createdAt |-> ISOString(at), updatedAt |-> ISOString(at),
     inputUsage |-> inputUsage]
MessageJSON(id, sid, at) ==
    [id |-> id, sessionId |-> sid, content |-> <<"H", "i">>,
     isStreaming |-> FALSE, timestamp |-> ISOString(at)]
UserFiles ==
    { \* a session record without id after a good one
      [exists |-> TRUE,
       json |-> [sessions |-> <<SessionJSON("s1", 0, 1), SessionJSON(Missing, 0, 1)>>,
                 messages |-> <<>>]],
      \* the same id twice, and a message dated after every clock reading
      [exists |-> TRUE,
       json |-> [sessions |-> <<SessionJSON("s2", 0, 1), SessionJSON("s2", 1, 2)>>,
                 messages |-> <<MessageJSON("m2", "s2", MaxClock + 1)>>]] }

\* ------------------------------------------------------------------ calls
NewSession == [inputUsage |-> 0]
SessionUpdates ==
    { [inputUsage |-> 1], [inputUsage |-> 1, updatedAt |-> Date(0)] }
MessageUpdates == { [content |-> <<"H", "i">>, isStreaming |-> FALSE] }

\* the next call: its trace in db.last, and no round trip in progress
\* unless the call continues one
Called(last, trip) ==
    [db EXCEPT !.ops = @ + 1, !.last = last, !.trip = trip]

CanCall == db.ops < MaxOps

FreshId(ids, store) ==
    CHOOSE id \in ids \ DOMAIN store :
        \A other \in ids \ DOMAIN store : IdRank(id) <= IdRank(other)

Tick ==
    /\ db.clock < MaxClock
    /\ db' = [db EXCEPT !.clock = @ + 1]
    /\ UNCHANGED <<storeVars, projVars, chatVars, turn, pending, loads,
                   mgrVars, left, retry, svcVars>>

CreateSession ==
    /\ CanCall
    /\ SessionIds \ DOMAIN db.sessions # {}
    /\ LET id == FreshId(SessionIds, db.sessions)
       IN db' = [Called([op |-> "SessionDB.create", id |-> id], NoTrip)
                    EXCEPT !.sessions =
                        SessionDB_create(db.sessions, id, NewSession, db.clock)]
    /\ UNCHANGED <<storeVars, projVars, chatVars, turn, pending, loads,
                   mgrVars, left, retry, svcVars>>

CreateMessage(sid) ==
    /\ CanCall
    /\ MessageIds \ DOMAIN db.messages # {}
    /\ LET id == FreshId(MessageIds, db.messages)
       IN db' = [Called([op |-> "MessageDB.create", id |-> id], NoTrip)
                    EXCEPT !.messages =
                        MessageDB_createAt(db.messages, id,
                            [sessionId |-> sid, content |-> <<>>,
                             isStreaming |-> TRUE], db.clock)]
    /\ UNCHANGED <<storeVars, projVars, chatVars, turn, pending, loads,
                   mgrVars, left, retry, svcVars>>

GetAllSessions ==
    /\ CanCall
    /\ db' = Called([op |-> "SessionDB.getAll",
                     result |-> SessionDB_getAll(db.sessions)], NoTrip)
    /\ UNCHANGED <<storeVars, projVars, chatVars, turn, pending, loads,
                   mgrVars, left, retry, svcVars>>

UpdateSession(id, updates) ==
    /\ CanCall
    /\ LET r == SessionDB_update(db.sessions, id, updates, db.clock)
       IN db' = [Called([op |-> "SessionDB.update", id |-> id,
                         updates |-> updates, result |-> r.result], NoTrip)
                    EXCEPT !.sessions = r.store]
    /\ UNCHANGED <<storeVars, projVars, chatVars, turn, pending, loads,
                   mgrVars, left, retry, svcVars>>

UpdateMessage(id, updates) ==
    /\ CanCall
    /\ LET r == MessageDB_update(db.messages, id, updates)
       IN db' = [Called([op |-> "MessageDB.update", id |-> id,
                         updates |-> updates, result |-> r.result], NoTrip)
                    EXCEPT !.messages = r.store]
    /\ UNCHANGED <<storeVars, projVars, chatVars, turn, pending, loads,
                   mgrVars, left, retry, svcVars>>

GetMessagesBySession(sid) ==
    /\ CanCall
    /\ db' = Called([op |-> "MessageDB.getBySessionId", sessionId |-> sid,
                     result |-> MessageDB_getBySessionIdAt(db.messages, sid,
                                                           db.clock)], NoTrip)
    /\ UNCHANGED <<storeVars, projVars, chatVars, turn, pending, loads,
                   mgrVars, left, retry, svcVars>>

\* handleExportData: exportData, JSON.stringify into the downloaded file
HandleExportData ==
    /\ CanCall
    /\ db' = [Called([op |-> "exportData"],
                     [stage |-> "exported", sessions |-> db.sessions,
                      messages |-> db.messages])
                EXCEPT !.file = JSON_stringify(
                           DataManager_exportData(db.sessions, db.messages))]
    /\ UNCHANGED <<storeVars, projVars, chatVars, turn, pending, loads,
                   mgrVars, left, retry, svcVars>>

\* handleClearData: clearAllData
HandleClearData ==
    /\ CanCall
    /\ db' = [Called([op |-> "clearAllData"],
                     IF db.trip.stage = "exported"
                     THEN [db.trip EXCEPT !.stage = "cleared"] ELSE NoTrip)
                EXCEPT !.sessions = <<>>, !.messages = <<>>]
    /\ UNCHANGED <<storeVars, projVars, chatVars, turn, pending, loads,
                   mgrVars, left, retry, svcVars>>

\* handleFileChange: JSON.parse of the picked file, the check that both
\* lists are there (they are, in every file here), importData
HandleFileChange(file) ==
    /\ CanCall
    /\ file.exists
    /\ LET data == JSON_parse(file)
           r == DataManager_importData(db.sessions, db.messages, data)
       IN db' = [Called([op |-> "importData", data |-> data, ok |-> r.ok],
                        IF db.trip.stage = "cleared" /\ file = db.file
                        THEN [db.trip EXCEPT !.stage = "imported"] ELSE NoTrip)
                   EXCEPT !.sessions = r.sessions, !.messages = r.messages]
    /\ UNCHANGED <<storeVars, projVars, chatVars, turn, pending, loads,
                   mgrVars, left, retry, svcVars>>

\* the same, but a request of the import fails: the error event aborts the
\* transaction and every put of it is undone
ImportAborted(file) ==
    /\ CanCall
    /\ file.exists
    /\ db' = Called([op |-> "importData", data |-> JSON_parse(file),
                     ok |-> FALSE], NoTrip)
    /\ UNCHANGED <<storeVars, projVars, chatVars, turn, pending, loads,
                   mgrVars, left, retry, svcVars>>

NextData ==
    \/ Tick
    \/ CreateSession
    \/ \E sid \in SessionIds : CreateMessage(sid)
    \/ GetAllSessions
    \/ \E id \in SessionIds, updates \in SessionUpdates : UpdateSession(id, updates)
    \/ \E id \in MessageIds, updates \in MessageUpdates : UpdateMessage(id, updates)
    \/ \E sid \in SessionIds : GetMessagesBySession(sid)
    \/ HandleExportData
    \/ HandleClearData
    \/ \E file \in UserFiles \cup {db.file} : HandleFileChange(file)
    \/ \E file \in UserFiles \cup {db.file} : ImportAborted(file)

\* no scenario of the application runs
NoScenario ==
    [turns |-> 0, checkpoints |-> 0, failures |-> 0, selects |-> 0,
     deletes |-> 0, rejected |-> {}]

InitData ==
    /\ InitApp
    /\ left = NoScenario
    /\ db = EmptyDB
    /\ retry = NoRetry
    /\ ServicesIdle

SpecData == InitData /\ [][NextData]_vars

\* ------------------------------------------------- properties of the calls
\* a call was made in this step
CallMade == db'.ops # db.ops

Ids(records) == {records[i].id : i \in DOMAIN records}
\* the last record of a list with this id
LastWith(records, id) ==
    records[CHOOSE i \in DOMAIN records :
                /\ records[i].id = id
                /\ \A j \in DOMAIN records : records[j].id = id => j <= i]

\* an import stored every record of the list (the later of two with one id)
\* and left every other record of the store as it was
Upserted(before, after, records) ==
    /\ DOMAIN after = DOMAIN before \cup Ids(records)
    /\ \A id \in Ids(records) : after[id] = LastWith(records, id)
    /\ \A id \in DOMAIN before \ Ids(records) : after[id] = before[id]

\* C14: when a file was exported, the data cleared and that file imported,
\* with no other call in between, both stores hold exactly the records they
\* held at the export.
C14_RoundTrip ==
    db.trip.stage = "imported" =>
        /\ db.sessions = db.trip.sessions
        /\ db.messages = db.trip.messages

\* C15: an import that succeeds has upserted every session and message of
\* the snapshot and changed no other record; an import that fails has
\* changed nothing.
C15_ImportAllOrNothing ==
    [][(CallMade /\ db'.last.op = "importData") =>
          IF db'.last.ok
          THEN /\ Upserted(db.sessions, db'.sessions, db'.last.data.sessions)
               /\ Upserted(db.messages, db'.messages, db'.last.data.messages)
          ELSE /\ db'.sessions = db.sessions
               /\ db'.messages = db.messages]_vars

\* C16: SessionDB.getAll returns every stored session exactly once, the
\* most recently updated first (stated for stores whose sessions all carry
\* a Date in updatedAt, as SessionDB.create and SessionDB.update write it).
C16_GetAllNewestFirst ==
    (/\ db.last.op = "SessionDB.getAll"
     /\ \A id \in DOMAIN db.sessions : db.sessions[id].updatedAt.type = "Date") =>
        LET r == db.last.result
        IN /\ Ids(r) = DOMAIN db.sessions
           /\ Len(r) = Cardinality(DOMAIN db.sessions)
           /\ \A i, j \in DOMAIN r :
                  i < j => KeyLE(r[j].updatedAt, r[i].updatedAt)

\* C17: MessageDB.getBySessionId returns exactly the stored messages of the
\* session, each once, by timestamp ascending, whatever their timestamps.
C17_GetBySessionIdComplete ==
    db.last.op = "MessageDB.getBySessionId" =>
        LET r == db.last.result
            mine == {k \in DOMAIN db.messages :
                         db.messages[k].sessionId = db.last.sessionId}
        IN /\ Ids(r) = mine
           /\ Len(r) = Cardinality(mine)
           /\ \A i, j \in DOMAIN r :
                  i < j => KeyLE(r[i].timestamp, r[j].timestamp)

\* what an update call may do to a store: nothing and undefined for an
\* unknown id; for a stored id the merge of the updates into that record
\* alone, with the fields named in kept as they were and those of stamped
\* set as given there
Merged(before, after, call, kept, stamped) ==
    LET id == call.id
        given == DOMAIN call.updates \ DOMAIN stamped
    IN IF id \notin DOMAIN before
       THEN /\ call.result = Undefined
            /\ after = before
       ELSE /\ DOMAIN after = DOMAIN before
            /\ \A k \in DOMAIN before \ {id} : after[k] = before[k]
            /\ call.result = after[id]
            /\ DOMAIN after[id] =
                   DOMAIN before[id] \cup DOMAIN call.updates \cup DOMAIN stamped
            /\ \A f \in kept : after[id][f] = before[id][f]
            /\ \A f \in DOMAIN stamped : after[id][f] = stamped[f]
            /\ \A f \in given : after[id][f] = call.updates[f]
            /\ \A f \in DOMAIN before[id] \ (given \cup DOMAIN stamped) :
                   after[id][f] = before[id][f]

\* C18: SessionDB.update and MessageDB.update return undefined and change
\* nothing for an id that is not stored; for a stored id they merge the
\* given fields into the record, keep its id and createdAt / timestamp, and
\* SessionDB.update sets updatedAt to the current time.
C18_UpdateContract ==
    [][CallMade =>
          /\ db'.last.op = "SessionDB.update" =>
                 Merged(db.sessions, db'.sessions, db'.last,
                        {"id", "createdAt"}, [updatedAt |-> Date(db.clock)])
          /\ db'.last.op = "MessageDB.update" =>
                 Merged(db.messages, db'.messages, db'.last,
                        {"id", "timestamp"}, <<>>)]_vars

\* a stored session was updated, after the clock moved, by updates that
\* carry their own updatedAt
C18_Witness ==
    /\ db.last.op = "SessionDB.update"
    /\ db.last.id \in DOMAIN db.sessions
    /\ "updatedAt" \in DOMAIN db.last.updates
    /\ db.sessions[db.last.id].inputUsage = 1
    /\ db.sessions[db.last.id].createdAt # Date(db.clock)

\* ================================================ chromeAPI.promptWithRetry
\* One invocation of promptWithRetry(session, input, options, maxRetries):
\* the loop is cut at its two awaits, of this.prompt and of the timer.

\* the largest maxRetries passed (3 is the default)
MaxRetries == 3

\* what session.prompt can reject with
OtherError == [name |-> "NotSupportedError", message |-> <<"bang">>]
Causes == {ModelError, OtherError, AbortError}
Resolved(response) == [name |-> "resolved", message |-> response]

\* `${n}` for a number of one digit
Decimal(n) == <<"0", "1", "2", "3", "4", "5", "6", "7", "8", "9">>[n + 1]

\* String.prototype.includes, on sequences of pieces
Contains(s, sub) ==
    \E i \in 0..(Len(s) - Len(sub)) : SubSeq(s, i + 1, i + Len(sub)) = sub

\* a delay that grows by one second per attempt
Backoff_Linear(attempt) == (attempt + 1) * 1000
\* Math.pow(2, attempt) * 1000
Backoff(attempt) == (2 ^ attempt) * 1000

\* the error thrown after the loop
FailedAfter(maxRetries, lastError) ==
    PromptExecutionError(
        <<"Failed after ", Decimal(maxRetries + 1), " attempts. Last error: ">>
            \o lastError.message)

\* the call, up to the first await of this.prompt
PromptWithRetry(maxRetries) ==
    /\ retry.pc = "idle"
    /\ retry' = [NoRetry EXCEPT !.pc = "calling", !.maxRetries = maxRetries]
    /\ UNCHANGED <<storeVars, projVars, chatVars, turn, pending, loads,
                   mgrVars, left, db, svcVars>>

\* this.prompt resolved: return
AttemptResolved(response) ==
    /\ retry.pc = "calling"
    /\ \A i \in DOMAIN retry.calls : retry.calls[i] # AbortError
    /\ retry' = [retry EXCEPT !.pc = "returned",
                              !.calls = Append(@, Resolved(response)),
                              !.result = response]
    /\ UNCHANGED <<storeVars, projVars, chatVars, turn, pending, loads,
                   mgrVars, left, db, svcVars>>

\* this.prompt rejected (it wraps what session.prompt rejected with): the
\* catch block, then either the timer or the end of the loop and the throw;
\* once the signal is aborted every call rejects with the abort
AttemptRejected(cause) ==
    LET lastError == PromptExecutionError(ErrorToString(cause))
    IN /\ retry.pc = "calling"
       /\ (\E i \in DOMAIN retry.calls : retry.calls[i] = AbortError) =>
              cause = AbortError
       /\ retry' =
            IF retry.attempt < retry.maxRetries
            THEN [retry EXCEPT !.pc = "waiting",
                               !.calls = Append(@, cause),
                               !.lastError = lastError,
                               !.waits = Append(@, Backoff(retry.attempt))]
            ELSE [retry EXCEPT !.pc = "thrown",
                               !.calls = Append(@, cause),
                               !.lastError = lastError,
                               !.thrown = FailedAfter(retry.maxRetries, lastError)]
       /\ UNCHANGED <<storeVars, projVars, chatVars, turn, pending, loads,
                      mgrVars, left, db, svcVars>>

\* the timer fired: attempt++, the next this.prompt
BackoffElapsed ==
    /\ retry.pc = "waiting"
    /\ retry' = [retry EXCEPT !.pc = "calling", !.attempt = @ + 1]
    /\ UNCHANGED <<storeVars, projVars, chatVars, turn, pending, loads,
                   mgrVars, left, db, svcVars>>

NextRetry ==
    \/ \E maxRetries \in 0..MaxRetries : PromptWithRetry(maxRetries)
    \/ \E response \in Responses : AttemptResolved(response)
    \/ \E cause \in Causes : AttemptRejected(cause)
    \/ BackoffElapsed

SpecRetry == InitData /\ [][NextRetry]_vars

\* C19: an invocation has ended by a throw only after maxRetries + 1
\* rejected calls, with waits of 1000, 2000, 4000, ... ms between them and
\* none after the last, and the error thrown is a PromptExecutionError whose
\* message contains that of the last rejection; it has ended by a return
\* only at the first resolved call, with that call's result; and after it
\* has ended no call and no wait is made.
C19_RetryContract ==
    [][/\ retry'.pc \in {"returned", "thrown"} =>
              LET n == Len(retry'.calls)
                  last == retry'.calls[n]
              IN /\ n <= retry'.maxRetries + 1
                 /\ retry'.waits = [i \in 1..(n - 1) |-> (2 ^ (i - 1)) * 1000]
                 /\ \A i \in 1..(n - 1) : retry'.calls[i] \in Causes
                 /\ IF retry'.pc = "thrown"
                    THEN /\ n = retry'.maxRetries + 1
                         /\ last \in Causes
                         /\ retry'.thrown.name = "ChromeAPIError"
                         /\ Contains(retry'.thrown.message,
                                     <<"Failed to execute prompt: ">>)
                         /\ Contains(retry'.thrown.message, last.message)
                    ELSE /\ last = Resolved(retry'.result)
                         /\ retry'.thrown = NoError
       /\ retry.pc \in {"returned", "thrown"} => retry' = retry]_vars

\* promptWithRetry(..., 3) has thrown after four rejected calls
C19_Witness ==
    /\ retry.pc = "thrown"
    /\ retry.maxRetries = 3
    /\ Len(retry.calls) = 4
    /\ retry.waits = <<1000, 2000, 4000>>

\* C20: a call rejected because the signal was aborted is the last call of
\* the invocation, which ends by a throw without waiting after it.
C20_AbortNotRetried ==
    \A i \in DOMAIN retry.calls :
        retry.calls[i] = AbortError =>
            /\ i = Len(retry.calls)
            /\ retry.pc = "thrown"
            /\ Len(retry.waits) = i - 1

\* ------------------------------------------- ChromeAPIService, by call
\* One invocation at a time of checkAvailability, createSession,
\* validateSessionParams or waitForAvailability, cut at the awaits on the
\* capability (availability(), create(), params()) and on the timer.  The
\* capability is window.ai.languageModel; whether it is present is fixed
\* for a run.  Time is counted in poll intervals (1000 ms); a call on the
\* capability settles after 0 .. MaxPollTime intervals, the timer after one.
\* params().maxTopK and params().maxTemperature of the runs
MaxTopK == 2
MaxTemperature == 2
\* the largest timeoutMs passed, and the longest a call on the capability
\* takes, both in poll intervals
MaxTimeout == 2
MaxPollTime == 1
PollInterval == 1

Statuses == {"unavailable", "downloadable", "downloading", "available"}
Terminal == {"available", "unavailable"}
TheParams == [maxTopK |-> MaxTopK, maxTemperature |-> MaxTemperature]
Value(v) == [supplied |-> TRUE, value |-> v]
TopKs == {NoValue} \cup {Value(v) : v \in 0..(MaxTopK + 1)}
Temperatures == {NoValue} \cup {Value(v) : v \in (0 - 1)..(MaxTemperature + 1)}
Timeouts == 0..MaxTimeout

AvailabilityOutcomes ==
    {[NoOutcome EXCEPT !.status = s] : s \in Statuses}
        \cup {[NoOutcome EXCEPT !.ok = FALSE, !.cause = ModelError]}
CreateOutcomes ==
    {[NoOutcome EXCEPT !.session = 1]}
        \cup {[NoOutcome EXCEPT !.ok = FALSE, !.cause = c] : c \in Causes}
ParamsOutcomes ==
    {[NoOutcome EXCEPT !.params = TheParams]}
        \cup {[NoOutcome EXCEPT !.ok = FALSE, !.cause = ModelError]}

ChromeAPIError(message, code) ==
    [name |-> "ChromeAPIError", code |-> code, message |-> message]
ModelUnavailableError ==
    ChromeAPIError(<<"Chrome Prompt API is not available on this device">>,
                   "MODEL_UNAVAILABLE")
SessionCreationError_NoCause(message) ==
    ChromeAPIError(<<"Failed to create session">>, Missing)
SessionCreationError(message) ==
    ChromeAPIError(<<"Failed to create session: ">> \o message,
                   "SESSION_CREATION_FAILED")
AvailabilityTimeout ==
    ChromeAPIError(<<"Timeout waiting for model availability">>,
                   "AVAILABILITY_TIMEOUT")

isSupported == api.supported

\* checkAvailability's try/catch around availability()
checkAvailability_Rethrow(outcome) ==
    IF outcome.ok THEN outcome.status ELSE "error"
checkAvailability(outcome) ==
    IF outcome.ok THEN outcome.status ELSE "unavailable"

\* getModelParams' try/catch around params()
getModelParams(outcome) ==
    IF outcome.ok
    THEN [ok |-> TRUE, params |-> outcome.params, thrown |-> NoThrown]
    ELSE [ok |-> FALSE, params |-> outcome.params,
          thrown |-> ChromeAPIError(<<"Failed to get model parameters: ">>
                                        \o ErrorToString(outcome.cause),
                                    Missing)]

\* the body of validateSessionParams once getModelParams has settled
validateSessionParams_Exclusive(topK, temperature, got) ==
    IF got.ok
    THEN LET e1 == IF topK.supplied
                      /\ (topK.value <= 1 \/ topK.value >= got.params.maxTopK)
                   THEN << <<"topK must be between 1 and ",
                             Decimal(got.params.maxTopK)>> >>
                   ELSE <<>>
             e2 == IF temperature.supplied
                      /\ (temperature.value <= 0
                          \/ temperature.value >= got.params.maxTemperature)
                   THEN << <<"temperature must be between 0 and ",
                             Decimal(got.params.maxTemperature)>> >>
                   ELSE <<>>
         IN [NoResult EXCEPT !.valid = (e1 \o e2 = <<>>), !.errors = e1 \o e2]
    ELSE [NoResult EXCEPT !.valid = FALSE,
                          !.errors = << <<"Failed to validate parameters: ">>
                                          \o ErrorToString(got.thrown) >>]
validateSessionParams(topK, temperature, got) ==
    IF got.ok
    THEN LET e1 == IF topK.supplied
                      /\ (topK.value < 1 \/ topK.value > got.params.maxTopK)
                   THEN << <<"topK must be between 1 and ",
                             Decimal(got.params.maxTopK)>> >>
                   ELSE <<>>
             e2 == IF temperature.supplied
                      /\ (temperature.value < 0
                          \/ temperature.value > got.params.maxTemperature)
                   THEN << <<"temperature must be between 0 and ",
                             Decimal(got.params.maxTemperature)>> >>
                   ELSE <<>>
         IN [NoResult EXCEPT !.valid = (e1 \o e2 = <<>>), !.errors = e1 \o e2]
    ELSE [NoResult EXCEPT !.valid = FALSE,
                          !.errors = << <<"Failed to validate parameters: ">>
                                          \o ErrorToString(got.thrown) >>]

ApiFree == api.pc \in {"idle", "returned", "thrown"}
Begin(fn, args) ==
    [NoApi EXCEPT !.supported = api.supported, !.fn = fn, !.args = args]
Return(a, result) == [a EXCEPT !.pc = "returned", !.result = result]
Throw(a, e) == [a EXCEPT !.pc = "thrown", !.thrown = e]
Await(a, call) == [a EXCEPT !.pc = call, !.calls = @ \o <<call>>]

apiFrame ==
    UNCHANGED <<storeVars, projVars, chatVars, turn, pending, loads, mgrVars,
                left, db, retry, rd, conn, app, form>>

CheckAvailability ==
    /\ ApiFree
    /\ LET a == Begin("checkAvailability", NoArgs)
       IN api' = IF ~isSupported
                 THEN Return(a, [NoResult EXCEPT !.status = "unavailable"])
                 ELSE Await(a, "availability")
    /\ apiFrame

CreateHandle ==
    /\ ApiFree
    /\ LET a == Begin("createSession", NoArgs)
       IN api' = IF ~isSupported
                 THEN Throw(a, ModelUnavailableError)
                 ELSE Await(a, "availability")
    /\ apiFrame

ValidateSessionParams(topK, temperature) ==
    /\ ApiFree
    /\ LET a == Begin("validateSessionParams",
                      [NoArgs EXCEPT !.topK = topK, !.temperature = temperature])
       IN api' = IF ~isSupported
                 THEN Return(a, validateSessionParams(topK, temperature,
                                    [ok |-> FALSE, params |-> NoOutcome.params,
                                     thrown |-> ModelUnavailableError]))
                 ELSE Await(a, "params")
    /\ apiFrame

\* the test of the while loop, with Date.now() - startTime = a.elapsed
Poll(a) ==
    IF a.elapsed < a.args.timeoutMs
    THEN IF ~isSupported
         THEN Return([a EXCEPT !.observed = @ \o <<[status |-> "unavailable",
                                                    at |-> a.elapsed]>>],
                     [NoResult EXCEPT !.status = "unavailable"])
         ELSE Await(a, "availability")
    ELSE Throw(a, AvailabilityTimeout)

WaitForAvailability(timeoutMs) ==
    /\ ApiFree
    /\ api' = Poll(Begin("waitForAvailability",
                         [NoArgs EXCEPT !.timeoutMs = timeoutMs]))
    /\ apiFrame

AvailabilitySettled(outcome, took) ==
    /\ api.pc = "availability"
    /\ LET availability == checkAvailability(outcome)
           now == IF api.fn = "waitForAvailability" THEN api.elapsed + took
                  ELSE api.elapsed
           a == [api EXCEPT !.seen = outcome, !.elapsed = now,
                            !.observed = @ \o <<[status |-> availability,
                                                 at |-> now]>>]
       IN api' = CASE api.fn = "checkAvailability" ->
                         Return(a, [NoResult EXCEPT !.status = availability])
                   [] api.fn = "createSession" ->
                         IF availability = "unavailable"
                         THEN Throw(a, ModelUnavailableError)
                         ELSE Await(a, "create")
                   [] OTHER ->
                         IF availability \in Terminal
                         THEN Return(a, [NoResult EXCEPT !.status = availability])
                         ELSE [a EXCEPT !.pc = "timer"]
    /\ apiFrame

CreateSettled(outcome) ==
    /\ api.pc = "create"
    /\ LET a == [api EXCEPT !.seen = outcome]
       IN api' = IF outcome.ok
                 THEN Return(a, [NoResult EXCEPT !.session = outcome.session])
                 ELSE Throw(a, SessionCreationError(ErrorToString(outcome.cause)))
    /\ apiFrame

ParamsSettled(outcome) ==
    /\ api.pc = "params"
    /\ api' = Return([api EXCEPT !.seen = outcome],
                     validateSessionParams(api.args.topK, api.args.temperature,
                                           getModelParams(outcome)))
    /\ apiFrame

TimerElapsed ==
    /\ api.pc = "timer"
    /\ api' = Poll([api EXCEPT !.elapsed = @ + PollInterval])
    /\ apiFrame

NextApi ==
    \/ CheckAvailability
    \/ CreateHandle
    \/ \E topK \in TopKs, temperature \in Temperatures :
          ValidateSessionParams(topK, temperature)
    \/ \E timeoutMs \in Timeouts : WaitForAvailability(timeoutMs)
    \/ \E outcome \in AvailabilityOutcomes, took \in 0..MaxPollTime :
          AvailabilitySettled(outcome, took)
    \/ \E outcome \in CreateOutcomes : CreateSettled(outcome)
    \/ \E outcome \in ParamsOutcomes : ParamsSettled(outcome)
    \/ TimerElapsed

InitApi ==
    /\ InitApp
    /\ left = NoScenario
    /\ db = EmptyDB
    /\ retry = NoRetry
    /\ api \in {[NoApi EXCEPT !.supported = b] : b \in BOOLEAN}
    /\ rd = NoReader
    /\ conn = NoConn
    /\ app = NoApp
    /\ form = NoForm

SpecApi == InitApi /\ [][NextApi]_vars

ApiDone(fn) == api.fn = fn /\ api.pc \in {"returned", "thrown"}
Last(s) == s[Len(s)]

\* C21: createSession tests the capability and the availability before it
\* creates anything: without the capability, or when the availability is
\* 'unavailable', it fails with ModelUnavailableError (MODEL_UNAVAILABLE)
\* and create() was never called; a failure of create() comes out as a
\* SessionCreationError (SESSION_CREATION_FAILED) whose message holds the
\* original message; nothing else is ever thrown.
C21_CreateSessionErrors ==
    ApiDone("createSession") =>
        /\ ~api.supported => api.thrown = ModelUnavailableError /\ api.calls = <<>>
        /\ (api.observed # <<>> /\ Last(api.observed).status = "unavailable") =>
               /\ api.thrown = ModelUnavailableError
               /\ api.calls = <<"availability">>
        /\ (api.calls # <<>> /\ Last(api.calls) = "create" /\ ~api.seen.ok) =>
               /\ api.pc = "thrown"
               /\ api.thrown.name = "ChromeAPIError"
               /\ api.thrown.code = "SESSION_CREATION_FAILED"
               /\ Contains(api.thrown.message, api.seen.cause.message)
        /\ (api.calls # <<>> /\ Last(api.calls) = "create" /\ api.seen.ok) =>
               api.pc = "returned" /\ api.result.session = api.seen.session
        /\ api.pc = "thrown" =>
               api.thrown.code \in {"MODEL_UNAVAILABLE", "SESSION_CREATION_FAILED"}

C21_Witness ==
    /\ ApiDone("createSession")
    /\ api.calls = <<"availability", "create">>
    /\ api.seen.cause = OtherError
    /\ api.thrown.code = "SESSION_CREATION_FAILED"

\* C22: checkAvailability never throws: it answers 'unavailable' when the
\* capability is missing or its availability() fails, and otherwise the
\* status the capability reported, one of the four.
C22_CheckAvailabilityTotal ==
    api.fn = "checkAvailability" =>
        /\ api.pc # "thrown"
        /\ api.pc = "returned" =>
              /\ api.result.status \in Statuses
              /\ ~api.supported => api.result.status = "unavailable" /\ api.calls = <<>>
              /\ (api.supported /\ ~api.seen.ok) => api.result.status = "unavailable"
              /\ (api.supported /\ api.seen.ok) => api.result.status = api.seen.status

C22_Witness ==
    /\ ApiDone("checkAvailability")
    /\ api.supported
    /\ ~api.seen.ok
    /\ api.result.status = "unavailable"

InBounds(v, lo, hi) == v.supplied => (lo <= v.value /\ v.value <= hi)
Violations(topK, temperature, params) ==
    (IF InBounds(topK, 1, params.maxTopK) THEN 0 ELSE 1)
        + (IF InBounds(temperature, 0, params.maxTemperature) THEN 0 ELSE 1)

C24_WaitWithinTimeout ==
    api.fn = "waitForAvailability" =>
        /\ api.pc = "returned" =>
              /\ api.result.status \in Terminal
              /\ Last(api.observed).status = api.result.status
              /\ Last(api.observed).at < api.args.timeoutMs
        /\ api.pc = "thrown" => api.thrown = AvailabilityTimeout

StreamingOf(sid) ==
    {id \in DOMAIN msgStore : msgStore[id].sessionId = sid /\ msgStore[id].isStreaming}

\* C25: in every state of the store, a session has at most one message
\* flagged isStreaming, whatever happened to the turns before.
C25_OneStreamingPerSession ==
    \A sid \in SessionIds : Cardinality(StreamingOf(sid)) <= 1

\* ------------------------------------------ consumers of a streamed response
\* One consumer at a time takes the reader of a stream it was given and
\* reads it to the end, to a rejection of read() (an abort of the signal or
\* a failure of the model), or, for the generator readStream, to a return()
\* of the code iterating it.  locked is the lock of the stream.
MaxReads == 3
Consumers == {"handleStreamingResponse", "readStream", "executeStreamingPrompt"}
ReadCauses == {AbortError, ModelError}

releaseLock(r) == [r EXCEPT !.locked = FALSE]
\* the finally block around the loop, for the consumers that have one
LeaveLoop(r, how) ==
    LET out == [r EXCEPT !.pc = "left", !.exit = how]
    IN IF r.consumer \in {"readStream", "executeStreamingPrompt"}
       THEN releaseLock(out)
       ELSE out

rdFrame ==
    UNCHANGED <<storeVars, projVars, chatVars, turn, pending, loads, mgrVars,
                left, db, retry, api, conn, app, form>>

GetReader(consumer) ==
    /\ rd.pc \in {"idle", "left"}
    /\ rd' = [NoReader EXCEPT !.consumer = consumer, !.pc = "reading",
                              !.locked = TRUE]
    /\ rdFrame

\* reader.read() resolves with a chunk
ReadValue(value) ==
    /\ rd.pc = "reading"
    /\ Len(rd.read) < MaxReads
    /\ rd' = [rd EXCEPT !.read = @ \o <<value>>,
                        !.pc = IF rd.consumer = "readStream" THEN "yielded"
                               ELSE "reading"]
    /\ rdFrame

\* reader.read() resolves with done
ReadDone ==
    /\ rd.pc = "reading"
    /\ rd' = LeaveLoop(rd, "done")
    /\ rdFrame

\* reader.read() rejects
ReadRejected(cause) ==
    /\ rd.pc = "reading"
    /\ rd' = LeaveLoop(rd, cause.name)
    /\ rdFrame

\* the code iterating readStream asks for the next chunk
GeneratorNext ==
    /\ rd.pc = "yielded"
    /\ rd' = [rd EXCEPT !.pc = "reading"]
    /\ rdFrame

\* the code iterating readStream leaves its for await loop
GeneratorReturn ==
    /\ rd.pc = "yielded"
    /\ rd' = LeaveLoop(rd, "return")
    /\ rdFrame

NextReader ==
    \/ \E consumer \in Consumers : GetReader(consumer)
    \/ \E value \in {"H", "i"} : ReadValue(value)
    \/ ReadDone
    \/ \E cause \in ReadCauses : ReadRejected(cause)
    \/ GeneratorNext
    \/ GeneratorReturn

InitServices ==
    /\ InitApp
    /\ left = NoScenario
    /\ db = EmptyDB
    /\ retry = NoRetry
    /\ ServicesIdle

SpecReader == InitServices /\ [][NextReader]_vars

\* C26: whoever took the reader of a streamed response has released it when
\* it leaves its loop, whether the stream ended, was aborted or failed.
C26_ReaderReleased ==
    rd.pc = "left" => ~rd.locked

\* ------------------------------------------------------- initDB, by caller
\* The callers of initDB: the call made when the module is loaded and the
\* one at the head of every store operation.  A caller that finds
\* dbInstance null calls openDB and assigns dbInstance when it resolves;
\* connections are numbered in the order of the openDB calls.
MaxCallers == 4

connFrame ==
    UNCHANGED <<storeVars, projVars, chatVars, turn, pending, loads, mgrVars,
                left, db, retry, api, rd, app, form>>

\* initDB up to its return or to the await of openDB
InitDB ==
    /\ Len(conn.callers) < MaxCallers
    /\ conn' = IF conn.dbInstance # 0
               THEN [conn EXCEPT !.callers =
                         @ \o <<[pc |-> "returned", opened |-> 0,
                                 got |-> conn.dbInstance]>>]
               ELSE [conn EXCEPT !.opens = @ + 1,
                                 !.callers =
                         @ \o <<[pc |-> "openDB", opened |-> conn.opens + 1,
                                 got |-> 0]>>]
    /\ connFrame

\* openDB resolves: dbInstance = the connection; return dbInstance
Opened(c) ==
    /\ c \in 1..Len(conn.callers)
    /\ conn.callers[c].pc = "openDB"
    /\ conn' = [conn EXCEPT !.dbInstance = conn.callers[c].opened,
                            !.callers[c].pc = "returned",
                            !.callers[c].got = conn.callers[c].opened]
    /\ connFrame

\* openDB rejects: initDB rejects, dbInstance keeps its value
OpenFailed(c) ==
    /\ c \in 1..Len(conn.callers)
    /\ conn.callers[c].pc = "openDB"
    /\ conn' = [conn EXCEPT !.callers[c].pc = "thrown"]
    /\ connFrame

NextConn ==
    \/ InitDB
    \/ \E c \in 1..MaxCallers : Opened(c)
    \/ \E c \in 1..MaxCallers : OpenFailed(c)

SpecConn == InitServices /\ [][NextConn]_vars

\* C29: openDB is called at most once in the life of the page, and every
\* caller of initDB that got a connection got the same one.
C29_OpenedOnce ==
    /\ conn.opens <= 1
    /\ \A c, d \in 1..Len(conn.callers) :
          (conn.callers[c].pc = "returned" /\ conn.callers[d].pc = "returned") =>
              conn.callers[c].got = conn.callers[d].got

\* C27: every handle that chromeAPI.createSession has produced is either
\* the active handle of the projection or has been destroyed.
C27_NoHandleLeak ==
    \A h \in 1..(nextHandle - 1) : h = chromeSession \/ h \in destroyed

\* C28: when the read of the session list, or of the messages of the
\* current session, is rejected, the error slot is set and the list that
\* was being loaded is empty afterwards.
C28_FailedLoadEmptiesList ==
    [][ \A what \in loads \ loads' :
           left' # left =>
              IF what = "sessions"
              THEN error' = "Failed to load sessions" /\ sessions' = {}
              ELSE /\ error' = "Failed to load messages"
                   /\ what = currentSession => currentMessages' = <<>> ]_vars

NothingPending ==
    /\ Quiescent
    /\ loads = {}
    /\ selects = {}
    /\ del.pc = "idle"

\* C30: whenever nothing is pending (no turn in flight, no load, select or
\* deletion in progress), the session list is the sessions of the store and
\* the message list is what the store holds for the current session.
C30_ProjectionMirrorsStore ==
    (NothingPending /\ StoreWorked) =>
        /\ sessions = sessionStore
        /\ currentSession # None =>
              currentMessages = MessageDB_getBySessionId(msgStore, currentSession)

\* --------------------------------------------------- turns that terminate
\* The requests a turn awaits settle: the step that follows the await the
\* turn is at, whichever its outcome, is eventually taken.
TurnStep(t) ==
    \/ UserMessageCreated(t)
    \/ CreateFailed(t)
    \/ PlaceholderCreated(t)
    \/ PromptStreamingFailed(t)
    \/ \E checkpoint \in BOOLEAN : ChunkRead(t, checkpoint)
    \/ StreamDone(t)
    \/ StreamAborted(t)
    \/ StreamFailed(t)
    \/ \E response \in Responses : PromptResolved(t, response)
    \/ PromptFailed(t)
    \/ UpdateGet(t)
    \/ UpdatePut(t)
    \/ UpdateFailed(t)

AwaitsSettle == \A t \in Turns : WF_vars(TurnStep(t))

\* The runs in which termination is checked: two turns that may overlap and
\* be cancelled, and one turn with a checkpoint and a rejection of the store
\* or of the model; one session is selected and none is deleted.
ScenariosLive ==
    { [turns |-> MaxTurns, checkpoints |-> 0, failures |-> 0,
       selects |-> MaxSelects, deletes |-> 0, rejected |-> {}],
      [turns |-> MaxTurns - 1, checkpoints |-> MaxCheckpoints,
       failures |-> MaxFailures, selects |-> MaxSelects, deletes |-> 0,
       rejected |-> {}] }

InitLive ==
    /\ InitApp
    /\ left \in ScenariosLive
    /\ db = EmptyDB
    /\ retry = NoRetry
    /\ ServicesIdle

NextLive ==
    \/ HandleSendMessage
    \/ \E t \in Turns : TurnStep(t)
    \/ \E i \in 1..(2 * MaxTurns + 1) : HandleCancelResponse(i)
    \/ \E call \in pending : PendingGet(call)
    \/ \E call \in pending : PendingPut(call)
    \/ \E call \in pending : PendingFailed(call)
    \/ \E value \in Inputs : HandleInputChange(value)
    \/ ToggleStreaming
    \/ LoadSessions
    \/ \E sid \in SessionIds : LoadMessages(sid)
    \/ \E what \in loads : LoadFailed(what)
    \/ \E sid \in SessionIds : HandleSelectSession(sid)
    \/ \E sel \in selects : SessionHandleCreated(sel)
    \/ \E sel \in selects : SessionHandleFailed(sel)

SpecLive == InitLive /\ [][NextLive]_vars /\ AwaitsSettle

\* C31: a turn that was accepted eventually returns, whatever its outcome,
\* and when it does the submitting and streaming flags are false and the
\* abort controller reference is cleared.
C31_TurnReturnsToIdle ==
    \A t \in Turns :
        InFlight(t) ~> (/\ turn[t].pc = "done"
                        /\ ~isSubmitting
                        /\ ~isStreaming
                        /\ abortRef = 0)

C31_Witness ==
    \E t \in Turns :
        /\ turn[t].pc = "done"
        /\ turn[t].failure = "abort"
        /\ turn[t].aiMessage.id # 0
        /\ ~isSubmitting /\ ~isStreaming /\ abortRef = 0

\* C32: once the turn of a stored placeholder has returned and no update
\* of a message is pending, the placeholder is stored with isStreaming
\* false, in streaming and in non-streaming mode.
C32_PlaceholderTerminal ==
    \A t \in Turns :
        LET id == turn[t].aiMessage.id
        IN (turn[t].pc = "done" /\ id # 0 /\ Stored(id) /\ pending = {}
            /\ StoreWorked) =>
               ~msgStore[id].isStreaming

IsPrefix(s, u) == Len(s) <= Len(u) /\ SubSeq(u, 1, Len(s)) = s

Streaming(t) ==
    turn[t].pc = "reading" /\ t \notin aborted /\ turn[t].cancelAt = <<>>

\* C33: while a turn reads its stream and was not cancelled, the placeholder
\* shown in the message list holds the chunks read so far, concatenated in
\* arrival order, and the stored placeholder holds a prefix of it.
C33_ProjectionLeadsStore ==
    \A t \in Turns :
        Streaming(t) =>
            LET id == turn[t].aiMessage.id
            IN \A i \in Rows(currentMessages, id) :
                  /\ currentMessages[i].content = Concat(turn[t].chunks)
                  /\ Stored(id) =>
                        IsPrefix(msgStore[id].content, currentMessages[i].content)

\* C34: a checkpoint issued while streaming never changes a placeholder
\* whose terminal update (final, error or cancel) has been stored: whatever
\* step a pending checkpoint takes, a record stored with isStreaming false
\* stays as it is.
C34_CheckpointNeverAfterTerminal ==
    [][ \A call \in pending \ pending' :
           (/\ call.kind = "checkpoint"
            /\ Stored(call.id)
            /\ ~msgStore[call.id].isStreaming) =>
               /\ call.id \in DOMAIN msgStore'
               /\ msgStore'[call.id] = msgStore[call.id] ]_vars

\* C35: when no load of the message list is in progress and no request of
\* the store was rejected, every message of the list belongs to the current
\* session, and the list is empty when there is no current session.
C35_MessagesOfCurrentSession ==
    (loads \cap SessionIds = {} /\ StoreWorked) =>
        /\ \A i \in DOMAIN currentMessages :
              currentMessages[i].sessionId = currentSession
        /\ currentSession = None => currentMessages = <<>>

\* C36: the identifiers of the messages of the message list are pairwise
\* distinct.
C36_DistinctMessageIds ==
    \A i, j \in DOMAIN currentMessages :
        currentMessages[i].id = currentMessages[j].id => i = j

C36_Witness ==
    \E t \in Turns :
        /\ InFlight(t)
        /\ turn[t].aiMessage.id # 0
        /\ turn[t].sessionId \in loads
        /\ Rows(currentMessages, turn[t].userMessage.id) # {}
        /\ Rows(currentMessages, turn[t].aiMessage.id) # {}
        /\ \E u \in Turns \ {t} : turn[u].pc = "done"

\* ------------------------------------------------- handle of the session
\* C37: a turn that executes a prompt and records its messages under a
\* session uses the model handle that was created for that session: the
\* handle captured by handleSendMessage was created by the selection of the
\* session the turn writes to, also after a failed handle creation and after
\* overlapping selections.
C37_HandleOfCurrentSession ==
    \A t \in Turns :
        (InFlight(t) /\ turn[t].chromeSession # 0) =>
            createdFor[turn[t].chromeSession] = turn[t].sessionId

\* -------------------------------------------------- the abort controller
\* C38: while a turn is in flight after its placeholder was created and has
\* not been cancelled, the abort controller reference holds that turn's own
\* controller and the in-flight marker is set, so that a cancel request
\* aborts it: the finally of an earlier turn never clears them.
C38_ControllerOfTurnInFlight ==
    \A t \in Turns :
        (turn[t].pc \in {"prompting", "reading"} /\ t \notin aborted) =>
            (abortRef = t /\ isSubmitting)

\* ------------------------------------------------ the reducer, taken alone
\* appReducer on the session, message and UI part of AppState.  A session
\* is its id and its inputUsage, null is the session without id.
\* the longest list of sessions, and of messages, of a run
MaxListed == 2
NoSession == [id |-> None, inputUsage |-> 0]
\* two versions of the record of s1 and of message 1, one of the others
SessionRecords ==
    {[id |-> "s1", inputUsage |-> u] : u \in 0..1} \cup {[id |-> "s2", inputUsage |-> 0]}
MessageRecords ==
    {NewMessage(1, "s1", "assistant", c, FALSE) : c \in {<<>>, <<"a">>}}
        \cup {NewMessage(2, "s1", "assistant", <<>>, FALSE)}
ListsOf(S) == UNION {[1..n -> S] : n \in 0..MaxListed}

SessionTransitions ==
    {"SET_SESSIONS", "ADD_SESSION", "UPDATE_SESSION", "DELETE_SESSION",
     "SET_CURRENT_SESSION"}
MessageTransitions ==
    {"SET_CURRENT_MESSAGES", "ADD_MESSAGE", "UPDATE_MESSAGE", "DELETE_MESSAGE"}

Action(type, payload) == [type |-> type, payload |-> payload]
AppActions ==
    {Action("SET_SESSIONS", l) : l \in ListsOf(SessionRecords)}
        \cup {Action(type, r) : type \in {"ADD_SESSION", "UPDATE_SESSION"},
                                r \in SessionRecords}
        \cup {Action("DELETE_SESSION", sid) : sid \in SessionIds}
        \cup {Action("SET_CURRENT_SESSION", r) : r \in SessionRecords \cup {NoSession}}
        \cup {Action("SET_CURRENT_MESSAGES", l) : l \in ListsOf(MessageRecords)}
        \cup {Action(type, r) : type \in {"ADD_MESSAGE", "UPDATE_MESSAGE"},
                                r \in MessageRecords}
        \cup {Action("DELETE_MESSAGE", id) : id \in 1..2}
        \cup {Action("SET_LOADING", b) : b \in BOOLEAN}
        \cup {Action("SET_ERROR", e) : e \in {None, "Failed to load sessions"}}
        \cup {Action("SET_CHROME_SESSION", h) : h \in 0..1}
        \cup {[type |-> "CLEAR_ERROR"]}

Without(list, id) == SelectSeq(list, LAMBDA r : r.id # id)

appReducer(state, action) ==
    CASE action.type = "SET_SESSIONS" ->
            [state EXCEPT !.sessions = action.payload]
      [] action.type = "ADD_SESSION" ->
            [state EXCEPT !.sessions = <<action.payload>> \o @]
      [] action.type = "UPDATE_SESSION" ->
            [state EXCEPT
                !.sessions = [i \in DOMAIN @ |->
                    IF @[i].id = action.payload.id THEN action.payload ELSE @[i]],
                !.currentSession =
                    IF @.id = action.payload.id THEN action.payload ELSE @]
      [] action.type = "DELETE_SESSION" ->
            [state EXCEPT
                !.sessions = Without(@, action.payload),
                !.currentSession =
                    IF state.currentSession.id = action.payload THEN NoSession ELSE @,
                !.currentMessages =
                    IF state.currentSession.id = action.payload THEN <<>> ELSE @]
      [] action.type = "SET_CURRENT_SESSION" ->
            [state EXCEPT !.currentSession = action.payload]
      [] action.type = "SET_CURRENT_MESSAGES" ->
            [state EXCEPT !.currentMessages = action.payload]
      [] action.type = "ADD_MESSAGE" ->
            [state EXCEPT !.currentMessages = ADD_MESSAGE(@, action.payload)]
      [] action.type = "UPDATE_MESSAGE" ->
            [state EXCEPT !.currentMessages = UPDATE_MESSAGE(@, action.payload)]
      [] action.type = "DELETE_MESSAGE" ->
            [state EXCEPT !.currentMessages = Without(@, action.payload)]
      [] action.type = "SET_LOADING" ->
            [state EXCEPT !.isLoading = action.payload]
      [] action.type = "SET_ERROR" ->
            [state EXCEPT !.error = action.payload]
      [] action.type = "SET_CHROME_SESSION" ->
            [state EXCEPT !.chromeSession = action.payload]
      [] action.type = "CLEAR_ERROR" ->
            [state EXCEPT !.error = None]
      [] OTHER -> state

\* dispatch(action)
Dispatch(action) ==
    LET reduced == appReducer(app.state, action)
    IN /\ Len(reduced.sessions) <= MaxListed
       /\ Len(reduced.currentMessages) <= MaxListed
       /\ app' = [state |-> reduced, action |-> action]
       /\ UNCHANGED <<storeVars, projVars, chatVars, turn, pending, loads,
                      mgrVars, left, db, retry, api, rd, conn, form>>

NextReducer == \E action \in AppActions : Dispatch(action)

SpecReducer == InitServices /\ [][NextReducer]_vars

\* the fields of the state a transition names
Named(type) ==
    CASE type \in {"SET_SESSIONS", "ADD_SESSION"} -> {"sessions"}
      [] type = "UPDATE_SESSION" -> {"sessions", "currentSession"}
      [] type = "DELETE_SESSION" -> {"sessions", "currentSession", "currentMessages"}
      [] type = "SET_CURRENT_SESSION" -> {"currentSession"}
      [] type \in MessageTransitions -> {"currentMessages"}
      [] type = "SET_LOADING" -> {"isLoading"}
      [] type \in {"SET_ERROR", "CLEAR_ERROR"} -> {"error"}
      [] type = "SET_CHROME_SESSION" -> {"chromeSession"}
      [] OTHER -> {}

Listed(list, id) == \E i \in DOMAIN list : list[i].id = id

MaxAttempts == 2
Forms == {"SessionManager", "SessionCreator"}
Names == {<<" ">>, <<"n">>}

\* errors.join(', ')
RECURSIVE Join(_)
Join(errors) ==
    IF errors = <<>> THEN <<>>
    ELSE IF Len(errors) = 1 THEN errors[1]
    ELSE errors[1] \o <<", ">> \o Join(Tail(errors))

formFrame ==
    UNCHANGED <<storeVars, projVars, chatVars, turn, pending, loads, mgrVars,
                left, db, retry, api, rd, conn, app>>

\* leaving the handler
Leave(outcome, creating, message) ==
    form' = [form EXCEPT !.pc = "returned", !.outcome = outcome,
                         !.isCreating = creating, !.error = message]

\* the click on 'Create Session', up to the first await
HandleCreateSession(component, name, topK, temperature) ==
    /\ form.pc \in {"idle", "returned"}
    /\ form.component \in {"none", component}
    /\ ~form.isCreating
    /\ form.attempts < MaxAttempts
    /\ LET begun == [form EXCEPT !.component = component, !.name = name,
                                 !.topK = topK, !.temperature = temperature,
                                 !.attempts = @ + 1, !.handles = 0,
                                 !.persisted = 0, !.outcome = "none"]
       IN form' =
            IF Trim(name) = <<>>
            THEN [begun EXCEPT !.pc = "returned", !.outcome = "noName",
                               !.error = <<"Session name is required">>]
            ELSE IF component = "SessionManager"
                    /\ ~topK.supplied /\ ~temperature.supplied
            THEN [begun EXCEPT !.pc = "create", !.isCreating = TRUE]
            ELSE [begun EXCEPT !.pc = "validate", !.isCreating = TRUE]
    /\ formFrame

\* chromeAPI.validateSessionParams resolved
ValidationSettled(outcome) ==
    LET validation == validateSessionParams(form.topK, form.temperature,
                                            getModelParams(outcome))
    IN /\ form.pc = "validate"
       /\ IF validation.valid
          THEN form' = [form EXCEPT !.pc = "create"]
          ELSE Leave("invalid",
                     \* SessionCreator clears the flag, SessionManager returns
                     IF form.component = "SessionCreator" THEN FALSE
                     ELSE form.isCreating,
                     Join(validation.errors))
       /\ formFrame

\* chromeAPI.createSession resolved
HandleCreated ==
    /\ form.pc = "create"
    /\ form' = [form EXCEPT !.pc = "persist", !.handles = @ + 1]
    /\ formFrame

\* chromeAPI.createSession rejected
HandleFailed ==
    /\ form.pc = "create"
    /\ Leave("noHandle", FALSE,
             <<"Failed to create session: ">>
                 \o ErrorToString(SessionCreationError(ModelError.message)))
    /\ formFrame

\* SessionDB.create resolved; the dispatches, resetForm or onClose
SessionPersisted ==
    /\ form.pc = "persist"
    /\ form' = [form EXCEPT !.pc = "returned", !.outcome = "created",
                            !.isCreating = FALSE, !.persisted = @ + 1,
                            !.name = IF form.component = "SessionManager"
                                     THEN <<>> ELSE @,
                            !.topK = IF form.component = "SessionManager"
                                     THEN NoValue ELSE @,
                            !.temperature = IF form.component = "SessionManager"
                                            THEN NoValue ELSE @]
    /\ formFrame

\* SessionDB.create rejected
PersistFailed ==
    /\ form.pc = "persist"
    /\ Leave("notPersisted", FALSE,
             <<"Failed to create session: ">> \o ErrorToString(StorageError))
    /\ formFrame

NextForm ==
    \/ \E component \in Forms, name \in Names, topK \in TopKs,
          temperature \in Temperatures :
            HandleCreateSession(component, name, topK, temperature)
    \/ \E outcome \in ParamsOutcomes : ValidationSettled(outcome)
    \/ HandleCreated
    \/ HandleFailed
    \/ SessionPersisted
    \/ PersistFailed

SpecForm == InitServices /\ [][NextForm]_vars

\* C40: every session creation attempt ends with the creating flag cleared,
\* whatever its outcome (missing name, invalid parameters, handle creation
\* failure, persistence failure, success), so that a further attempt is
\* possible; an attempt that fails validation has created no handle and
\* persisted no session.
C40_CreationAttemptEnds ==
    /\ form.pc = "returned" => ~form.isCreating
    /\ form.outcome = "invalid" => (form.handles = 0 /\ form.persisted = 0)

====
